---- MODULE Spec2Model ----
(***************************************************************************)
(* Model of the OAP reference services: the procedural-memory cache        *)
(* (ExperienceStore, ExperienceEngine), the tool-bridge chat proxy, the    *)
(* invoker and the trust attestation service.                              *)
(*                                                                         *)
(* Confidence values are fixed-point numbers in thousandths (0.85 = 850).  *)
(***************************************************************************)
EXTENDS Integers, Sequences, FiniteSets, TLC

VARIABLES
    experiences,   \* ExperienceStore: experience id -> row, or NoRecord
    manifests,     \* ManifestStore: the domains that have a manifest
    now,           \* logical clock behind datetime.now()
    today,         \* the UTC day of datetime.now()
    route,         \* ExperienceEngine.process: the route of the last response
    procReq,       \* ExperienceEngine.process: the last request as fingerprinted
    chat,          \* chat_proxy: the locals of the request being served
    chatCount,     \* chat requests started so far
    inv,           \* invoke_manifest: the locals of the invocation being run
    challenges,    \* TrustStore: the rows of the challenges table
    attestations,  \* TrustStore: the rows of the attestations table
    tnow,          \* datetime.now() of the trust service, in seconds
    vcall,         \* verify_domain_attestation: the locals of each running call
    cap,           \* attest_capability: what the last call returned
    outbound,      \* the HTTP requests the last trust operation sent
    published,     \* the manifest each domain serves
    storeCall,     \* ExperienceStore: the last direct call and what it returned
    inflight,      \* ExperienceEngine.process: the locals of each request in flight
    disc,          \* DiscoveryEngine.discover: the last call and its response
    icall,         \* initiate_domain_attestation: how the last call ended
    issued,        \* history: what _sign_attestation computed, call by call
    kcall,         \* KeyManager: the last verify(sign(c)) and what it returned
    split,         \* _split_chunks: the locals of the call being run
    ecall,         \* ExperienceEngine.process: the calls the last request made
    invocations    \* ExperienceStore: the invocation column of each row

expVars == <<experiences, manifests, now, today, route, procReq>>

chatVars == <<chat, chatCount>>

trustVars ==
    <<challenges, attestations, tnow, vcall, cap, outbound, published>>

svcVars == <<inv, trustVars>>

toolVars == <<split, ecall, invocations>>

libVars == <<storeCall, inflight, disc, icall, issued, kcall, toolVars>>

vars == <<expVars, chatVars, svcVars, libVars>>

----------------------------------------------------------------------------
(* Bounds of the model *)

MaxNow == 11           \* the clock stops here, which bounds the number of writes
MaxDay == 2            \* UTC days an experience id can be minted on
MaxChats == 1          \* chat requests served one after the other
MaxOapRounds == 4      \* largest oap_max_rounds a request asks for (the API allows 10)
MaxCalls == 2          \* tool calls in one LLM reply
MaxTicks == 2          \* steps of the trust service's clock
MaxChallenges == 2     \* challenges ever issued
MaxAttestations == 2   \* attestations ever stored
MaxStoreCalls == 2
MaxLeaps == 1     \* direct calls of the store's methods
MaxText == 5           \* characters of the text _split_chunks is given
MaxChunkSize == 3      \* largest chunk_size _split_chunks is given
MaxEngineCalls == 2    \* requests ExperienceEngine.process serves in a row

(* Program constants *)

FindLimit == 5           \* default `limit` of find_by_fingerprint / find_similar
DefaultThreshold == 850  \* ExperienceConfig.confidence_threshold = 0.85
ChatConfidence == 900    \* confidence of a record cached by the chat proxy
DegradeFactorTenths == 7 \* default `factor` of degrade_confidence = 0.7
CfgMaxRounds == 3        \* ToolBridgeConfig.max_rounds
MaxRedirects == 5        \* max_redirects of _invoke_http
ChallengeTtlSeconds == 3600  \* AttestationConfig.challenge_ttl_seconds
MaxAttempts == 2         \* for _attempt in range(2)

----------------------------------------------------------------------------
(* Universe of the model *)

NoRecord == [absent |-> TRUE]
None == "None"        \* a missing string
NoFp == <<>>          \* a missing fingerprint
NoId == <<>>          \* a missing experience id
NoConfidence == -1    \* a missing confidence

\* Fingerprints are sequences of dotted parts: verb.category.specific_action
FpGrep == <<"search", "text", "pattern_match">>
FpFind == <<"search", "text", "file_find">>
FpBare == <<"compute">>
FpUnknown == <<"unknown">>
Fingerprints == {FpGrep, FpFind, FpBare}

IntentDomains == {"developer.tools"}

Domains == {"grep", "jq", "wc"}      \* manifest domains

Days == 1..MaxDay

\* exp_YYYYMMDD_<sha256(fingerprint:manifest_domain)[:8]>; the digest is kept
\* as the pair it is computed from
make_experience_id(day, fingerprint, manifest_domain) ==
    <<day, fingerprint, manifest_domain>>

ExperienceIds ==
    { make_experience_id(d, f, m) :
        d \in Days, f \in Fingerprints \cup {FpUnknown}, m \in Domains }

Min(a, b) == IF a <= b THEN a ELSE b

----------------------------------------------------------------------------
(* ExperienceStore *)

Present(store) == { id \in DOMAIN store : store[id] # NoRecord }

\* ORDER BY use_count DESC, last_used DESC
RanksBefore(a, b) ==
    \/ a.use_count > b.use_count
    \/ a.use_count = b.use_count /\ a.last_used > b.last_used

\* every order of the ids of S that the ORDER BY clause allows (rows that tie
\* on both keys come back in any order)
RECURSIVE OrderedSeqs(_, _)
OrderedSeqs(store, S) ==
    IF S = {} THEN {<<>>}
    ELSE UNION { { <<x>> \o t : t \in OrderedSeqs(store, S \ {x}) } :
                 x \in { y \in S : \A z \in S : ~RanksBefore(store[z], store[y]) } }

Truncate(s, limit) == SubSeq(s, 1, Min(limit, Len(s)))

\* the possible results (sequences of ids) of find_by_fingerprint
find_by_fingerprint(store, fingerprint, limit) ==
    { Truncate(s, limit) :
        s \in OrderedSeqs(store,
                { id \in Present(store) : store[id].fingerprint = fingerprint }) }

IsPrefix(p, s) == Len(p) <= Len(s) /\ SubSeq(s, 1, Len(p)) = p

\* the possible results of find_similar: same domain, fingerprint LIKE prefix%
find_similar(store, intent_domain, fingerprint_prefix, limit) ==
    { Truncate(s, limit) :
        s \in OrderedSeqs(store,
                { id \in Present(store) :
                    /\ store[id].domain = intent_domain
                    /\ IsPrefix(fingerprint_prefix, store[id].fingerprint) }) }

\* INSERT OR IGNORE: the row already stored under the id stays
insert_or_ignore(store, id, record) ==
    IF store[id] # NoRecord THEN store ELSE [store EXCEPT ![id] = record]

\* INSERT OR REPLACE
save(store, id, record) == [store EXCEPT ![id] = record]

\* the UPDATE of touch without use_count = use_count + 1
touch_last_used_only(store, id, t) ==
    IF store[id] = NoRecord THEN store
    ELSE [store EXCEPT ![id].last_used = t]

touch(store, id, t) ==
    IF store[id] = NoRecord THEN store
    ELSE [store EXCEPT ![id].use_count = @ + 1, ![id].last_used = t]

\* the factors callers pass, in tenths
Factors == {5, 7, 10}

\* the UPDATE of degrade_confidence without outcome_status = 'failure'
degrade_confidence_only(store, id, factor) ==
    IF store[id] = NoRecord THEN store
    ELSE [store EXCEPT ![id].confidence = (@ * factor) \div 10]

\* the store after degrade_confidence(id, factor)
degrade_confidence(store, id, factor) ==
    IF store[id] = NoRecord THEN store
    ELSE [store EXCEPT ![id].confidence = (@ * factor) \div 10,
                       ![id].status = "failure"]

\* what degrade_confidence(id, factor) returns: new_confidence, or None
degrade_confidence_returns(store, id, factor) ==
    IF store[id] = NoRecord THEN NoConfidence
    ELSE (store[id].confidence * factor) \div 10

----------------------------------------------------------------------------
(* ExperienceEngine.process *)

\* path 1 without the test of the outcome
ProcessEligibleAnyStatus(exp, threshold) ==
    exp.confidence >= threshold

\* the test of the path-1 loop
ProcessEligible(exp, threshold) ==
    exp.confidence >= threshold /\ exp.status = "success"

\* index of the first record of `matches` the path-1 loop accepts, 0 if none
FirstEligible(store, matches, threshold) ==
    LET hits == { i \in 1..Len(matches) : ProcessEligible(store[matches[i]], threshold) }
    IN  IF hits = {} THEN 0 ELSE CHOOSE i \in hits : \A j \in hits : i <= j

\* cosine distances the vector search reports: 1 - cos lies in [0, 2]
Scores == {160, 1200}
Thresholds == {0, 850}   \* request.confidence_threshold

\* a record built with use_count=0
NewRecordUnused(fingerprint, intent_domain, manifest_domain, confidence, status, t) ==
    [ fingerprint |-> fingerprint, domain |-> intent_domain,
      manifest |-> manifest_domain, confidence |-> confidence,
      status |-> status, use_count |-> 0, last_used |-> t ]

\* ExperienceRecord(id=exp_id, timestamp=now, use_count=1, last_used=now, ...)
NewRecord(fingerprint, intent_domain, manifest_domain, confidence, status, t) ==
    [ fingerprint |-> fingerprint, domain |-> intent_domain,
      manifest |-> manifest_domain, confidence |-> confidence,
      status |-> status, use_count |-> 1, last_used |-> t ]

\* confidence=1.0 - match.score if match.score < 1.0 else match.score
DiscoveryConfidence(score) == IF score < 1000 THEN 1000 - score ELSE score

Path1CacheHit(id, threshold, fp, idom) ==
    \* result = await invoke_manifest(...): success or failure
    \E result \in {"success", "failure"} :
    /\ experiences' = touch(experiences, id, now)
    /\ now' = now + 1
    /\ route' = [ path |-> "cache_hit",
                  cache_confidence |-> experiences[id].confidence,
                  experience_id |-> id,
                  invocation_status |-> result ]
    /\ procReq' = [ fingerprint |-> fp, threshold |-> threshold,
                    intent_domain |-> idom ]
    /\ UNCHANGED <<manifests, today, chatVars, svcVars, libVars>>

\* paths 2 and 3 after routing: discover, invoke, save
DiscoverInvokeSave(path, template, fp, idom, threshold) ==
    /\ procReq' = [ fingerprint |-> fp, threshold |-> threshold,
                    intent_domain |-> idom ]
    /\ UNCHANGED <<manifests, today, chatVars, svcVars, libVars>>
    /\ \/ \* discovery found no match: candidates only
          /\ route' = [ path |-> path,
                        cache_confidence |->
                            IF template = NoId THEN NoConfidence
                            ELSE experiences[template].confidence,
                        experience_id |-> template,
                        invocation_status |-> None ]
          /\ UNCHANGED <<experiences, now>>
       \/ \E m \in Domains, score \in Scores, status \in {"success", "failure"} :
            LET id == make_experience_id(today, fp, m) IN
            /\ experiences' = save(experiences, id,
                    NewRecord(fp, idom, m, DiscoveryConfidence(score), status, now))
            /\ now' = now + 1
            /\ route' = [ path |-> path,
                          cache_confidence |->
                              IF template = NoId THEN NoConfidence
                              ELSE experiences[template].confidence,
                          experience_id |-> id,
                          invocation_status |-> status ]

\* prefix = ".".join(fp_parts[:2])
Prefix(fp) == SubSeq(fp, 1, Min(2, Len(fp)))

\* path 2 tried for every fingerprint
TriesPartialMatchAlways(fp) == TRUE

\* if len(fp_parts) >= 2
TriesPartialMatch(fp) == Len(fp) >= 2

ProcessRequest ==
    /\ now < MaxNow
    /\ \E threshold \in Thresholds, idom \in IntentDomains :
       \/ \* fingerprinting failed
          DiscoverInvokeSave("full_discovery", NoId, FpUnknown, "unknown",
                             threshold)
       \/ \E fp \in Fingerprints :
          \E exact \in find_by_fingerprint(experiences, fp, FindLimit) :
            LET hit == FirstEligible(experiences, exact, threshold) IN
            IF hit # 0
            THEN Path1CacheHit(exact[hit], threshold, fp, idom)
            ELSE IF TriesPartialMatch(fp)
                 THEN \E similar \in find_similar(experiences, idom,
                                                  Prefix(fp), FindLimit) :
                        IF similar # <<>>
                        THEN DiscoverInvokeSave("partial_match", similar[1],
                                                fp, idom, threshold)
                        ELSE DiscoverInvokeSave("full_discovery", NoId,
                                                fp, idom, threshold)
                 ELSE DiscoverInvokeSave("full_discovery", NoId,
                                         fp, idom, threshold)

----------------------------------------------------------------------------
(* chat_proxy: POST /v1/chat *)

DiscoverDomains == {"grep", "jq"}   \* domains the vector search proposes
CallNames == DiscoverDomains \cup {"client_tool"}  \* tools the LLM may call
ChatFingerprints == {FpGrep, FpFind}  \* fingerprints of the chat tasks

\* the request's own round limit, not capped by the configuration
MaxRoundsUncapped(oap_max_rounds, cfg_max_rounds) == oap_max_rounds

\* max_rounds = min(req.oap_max_rounds, bridge_cfg.max_rounds)
MaxRounds(oap_max_rounds, cfg_max_rounds) == Min(oap_max_rounds, cfg_max_rounds)

\* the cache check without the test of the outcome
ChatEligibleAnyStatus(exp, threshold) ==
    exp.confidence >= threshold

\* the test of the loop of _check_experience_cache
ChatEligible(exp, threshold) ==
    exp.confidence >= threshold /\ exp.status = "success"

\* index of the record _check_experience_cache returns as the hit, 0 on a miss:
\* the first eligible one whose manifest is still in the manifest store
CacheHitIndex(store, mans, matches, threshold) ==
    LET hits == { i \in 1..Len(matches) :
                    /\ ChatEligible(store[matches[i]], threshold)
                    /\ store[matches[i]].manifest \in mans }
    IN  IF hits = {} THEN 0 ELSE CHOOSE i \in hits : \A j \in hits : i <= j

\* the registries _discover_tools can return: candidates that have a manifest
discover_tools(mans) == SUBSET (DiscoverDomains \cap mans)

\* cache_label = exp_cache_status or ("hit" if exp_cache_hit else "miss" if exp_fingerprint else None)
CacheLabel(c) ==
    IF c.exp_cache_status # None THEN c.exp_cache_status
    ELSE IF c.exp_cache_hit THEN "hit"
    ELSE IF c.exp_fingerprint # NoFp THEN "miss"
    ELSE None

\* the condition in front of _save_experience without the test for errors
ShouldSaveDespiteErrors(c) ==
    /\ c.tools_executed
    /\ ~c.exp_cache_hit
    /\ c.exp_fingerprint # NoFp
    /\ c.exp_intent_domain # None

\* the condition in front of _save_experience
ShouldSave(c) ==
    /\ c.tools_executed
    /\ ~c.tools_had_errors
    /\ ~c.exp_cache_hit
    /\ c.exp_fingerprint # NoFp
    /\ c.exp_intent_domain # None

\* any entry of the registry, called or not
SaveAnyEntry(registry, tools_called) == registry

\* the registry entries _save_experience may pick: a called tool if one is
\* registered, else the first entry of the registry
SaveTargets(registry, tools_called) ==
    IF registry = {} THEN {}
    ELSE IF tools_called \cap registry # {} THEN tools_called \cap registry
    ELSE registry

\* a retry after every attempt of a cache-hit request in which a tool erred
ShouldRetryEveryAttempt(c) ==
    /\ c.tools_had_errors
    /\ c.exp_id # NoId

\* the retry condition after the round loop
ShouldRetry(c) ==
    /\ c.exp_cache_hit
    /\ c.tools_had_errors
    /\ c.attempt = 0
    /\ c.exp_id # NoId

NoResponse ==
    [ status |-> None, oap_experience_cache |-> None, oap_round |-> 0,
      oap_tools_injected |-> 0 ]

\* req.messages: the conversation the client sends
OriginalMessages == << [ role |-> "user", round |-> 0, call |-> 0 ] >>

\* resp_message of round n
AssistantMessage(n) == [ role |-> "assistant", round |-> n, call |-> 0 ]

\* the role=tool message that answers the k-th tool call of round n
ToolMessage(n, k) == [ role |-> "tool", round |-> n, call |-> k ]

\* the role=tool messages of round n, one per tool call, in call order;
\* tool_calls is the number of tool calls of the round
ToolMessages(n, tool_calls) ==
    [ k \in 1..tool_calls |-> ToolMessage(n, k) ]

\* only the tool results are appended
AppendToolResultsOnly(messages, n, tool_calls) ==
    messages \o ToolMessages(n, tool_calls)

\* messages.append(resp_message), then one append per tool call
AppendRound(messages, n, tool_calls) ==
    Append(messages, AssistantMessage(n)) \o ToolMessages(n, tool_calls)

IdleChat ==
    [ pc |-> "idle", messages |-> <<>>, oap_max_rounds |-> 0, max_rounds |-> 0, auto_execute |-> FALSE,
      attempt |-> 0, round_num |-> 0, registry |-> {},
      exp_fingerprint |-> NoFp, exp_intent_domain |-> None,
      exp_cache_hit |-> FALSE, exp_id |-> NoId,
      tools_executed |-> FALSE, tools_had_errors |-> FALSE, tools_called |-> {},
      exp_cache_status |-> None, response |-> NoResponse,
      \* history of the request
      served_from_cache |-> FALSE, hit_tool_error |-> FALSE,
      hit_confidence |-> NoConfidence,
      attempts |-> 0, llm_calls |-> 0, degraded |-> <<>>, saved |-> NoId,
      \* history of the attempt: the message list of each request to the
      \* LLM, and the number of tool calls of each answer
      sent |-> <<>>, round_calls |-> <<>> ]

\* lines 218-264: cache check, discovery, merge of the client tools
ChatStart ==
    /\ chat.pc # "round"
    /\ chatCount < MaxChats
    /\ chatCount' = chatCount + 1
    /\ UNCHANGED <<manifests, today, route, procReq, svcVars, libVars>>
    /\ \E oap \in 1..MaxOapRounds, auto \in BOOLEAN :
       LET base == [ IdleChat EXCEPT !.pc = "round", !.oap_max_rounds = oap,
                        !.max_rounds = MaxRounds(oap, CfgMaxRounds),
                        !.auto_execute = auto, !.attempts = 1,
                        !.messages = OriginalMessages ]
       IN
       \/ \* oap_discover off, or no user message
          /\ chat' = base
          /\ UNCHANGED <<experiences, now>>
       \/ \* the experience cache is not wired, or fingerprinting failed
          \E reg \in discover_tools(manifests) :
            /\ chat' = [ base EXCEPT !.registry = reg ]
            /\ UNCHANGED <<experiences, now>>
       \/ \E fp \in ChatFingerprints, idom \in IntentDomains :
          \E matches \in find_by_fingerprint(experiences, fp, FindLimit) :
            LET hit == CacheHitIndex(experiences, manifests, matches, DefaultThreshold)
            IN
            IF hit # 0
            THEN /\ experiences' = touch(experiences, matches[hit], now)
                 /\ now' = now + 1
                 /\ chat' = [ base EXCEPT
                        !.registry = {experiences[matches[hit]].manifest},
                        !.exp_fingerprint = fp, !.exp_intent_domain = idom,
                        !.exp_id = matches[hit], !.exp_cache_hit = TRUE,
                        !.served_from_cache = TRUE,
                        !.hit_confidence = experiences[matches[hit]].confidence ]
            ELSE \E reg \in discover_tools(manifests) :
                 /\ chat' = [ base EXCEPT !.registry = reg,
                        !.exp_fingerprint = fp, !.exp_intent_domain = idom ]
                 /\ UNCHANGED <<experiences, now>>

\* return ollama_resp: label the response and cache the experience
ChatReturn(c, oap_round) ==
    LET targets == SaveTargets(c.registry, c.tools_called)
        resp == [ status |-> "200", oap_experience_cache |-> CacheLabel(c),
                  oap_round |-> oap_round,
                  oap_tools_injected |-> Cardinality(c.registry) ]
    IN
    IF ShouldSave(c) /\ targets # {}
    THEN \E m \in targets :
           LET id == make_experience_id(today, c.exp_fingerprint, m) IN
           /\ experiences' = save(experiences, id,
                  NewRecord(c.exp_fingerprint, c.exp_intent_domain, m,
                            ChatConfidence, "success", now))
           /\ now' = now + 1
           /\ chat' = [ c EXCEPT !.pc = "done", !.response = resp, !.saved = id ]
    ELSE /\ chat' = [ c EXCEPT !.pc = "done", !.response = resp ]
         /\ UNCHANGED <<experiences, now>>

\* lines 386-431: the round loop of this attempt is exhausted
ChatAfterRounds(c) ==
    IF ShouldRetry(c)
    THEN \E reg \in discover_tools(manifests) :
           /\ experiences' = degrade_confidence(experiences, c.exp_id,
                                                   DegradeFactorTenths)
           /\ UNCHANGED now
           /\ chat' = [ c EXCEPT
                  !.exp_cache_hit = FALSE, !.exp_cache_status = "degraded",
                  !.tools_had_errors = FALSE, !.tools_executed = FALSE,
                  !.tools_called = {}, !.registry = reg,
                  !.messages = OriginalMessages,
                  !.sent = <<>>, !.round_calls = <<>>,
                  !.attempt = 1, !.round_num = 0,
                  !.degraded = Append(@, c.exp_id),
                  !.attempts = @ + 1, !.llm_calls = 0 ]
    ELSE ChatReturn(c, c.max_rounds)

\* one pass of the round loop: the LLM call and the tool calls it asks for
ChatRound ==
    /\ chat.pc = "round"
    /\ UNCHANGED <<manifests, today, route, procReq, chatCount, svcVars, libVars>>
    /\ LET called == [ chat EXCEPT !.llm_calls = @ + 1,
                                   !.sent = Append(@, chat.messages) ] IN
       \/ \* the LLM answers without tool calls, or auto-execute is off
          ChatReturn(called, chat.round_num + 1)
       \/ /\ chat.auto_execute
          /\ \E calls \in (SUBSET CallNames) \ {{}}, any_error \in BOOLEAN :
             /\ Cardinality(calls) <= MaxCalls
             /\ (calls \ chat.registry # {}) => any_error   \* unknown tool
             /\ LET c == [ called EXCEPT
                            !.messages = AppendRound(@, chat.round_num + 1,
                                                     Cardinality(calls)),
                            !.round_calls = Append(@, Cardinality(calls)),
                            !.tools_executed = TRUE,
                            !.tools_called = @ \cup calls,
                            !.tools_had_errors = @ \/ any_error,
                            !.hit_tool_error = @ \/ (any_error /\ chat.exp_cache_hit),
                            !.round_num = @ + 1 ]
                IN  IF c.round_num < c.max_rounds
                    THEN /\ chat' = c
                         /\ UNCHANGED <<experiences, now>>
                    ELSE ChatAfterRounds(c)

\* Ollama is unreachable or answers with an HTTP error: 502 to the client
ChatOllamaError ==
    /\ chat.pc = "round"
    /\ chat' = [ chat EXCEPT !.pc = "done", !.response.status = "502",
                             !.llm_calls = @ + 1,
                             !.sent = Append(@, chat.messages) ]
    /\ UNCHANGED <<expVars, chatCount, svcVars, libVars>>

----------------------------------------------------------------------------
(* invoker: invoke_manifest *)

NoPath == [ abs |-> FALSE, parts |-> <<>> ]   \* a missing command path

\* a path with a leading slash, as its components
Abs(parts) == [ abs |-> TRUE, parts |-> parts ]

\* a command without a leading slash
Rel(parts) == [ abs |-> FALSE, parts |-> parts ]

\* the directories of ALLOWED_STDIO_PREFIXES
ALLOWED_STDIO_PREFIXES ==
    { <<"usr", "bin">>, <<"usr", "local", "bin">>, <<"bin">>,
      <<"opt", "homebrew", "bin">> }

\* command.startswith(p) for a prefix p that ends with a slash
StartsWithPrefix(command, p) ==
    command.abs /\ IsPrefix(p, command.parts) /\ Len(command.parts) > Len(p)

\* the invoke.url values of the stdio manifests
StdioCommands ==
    { Abs(<<"usr", "bin", "grep">>),
      Abs(<<"opt", "homebrew", "bin", "jq">>),
      Abs(<<"tmp", "evil">>),
      Abs(<<"usr", "binx", "tool">>),
      Abs(<<"usr", "bin", "..", "..", "tmp", "evil">>),
      Abs(<<"usr", "local", "bin", ".", "..", "bin", "wc">>),
      Rel(<<"grep">>), Rel(<<"evil">>), Rel(<<"missing">>),
      Rel(<<".", "evil">>) }

\* shutil.which(command): what the PATH of the process may resolve it to,
\* NoPath for None
which(command) ==
    CASE command = Rel(<<"grep">>) ->
            { Abs(<<"usr", "bin", "grep">>), Abs(<<"home", "dev", "bin", "grep">>) }
      [] command = Rel(<<"evil">>) ->
            { Abs(<<"tmp", "evil">>), Rel(<<".", "evil">>), NoPath }
      [] command = Rel(<<".", "evil">>) -> { Rel(<<".", "evil">>), NoPath }
      [] OTHER -> { NoPath }

\* _validate_stdio_command: the paths it may return, NoPath for ValueError
validate_stdio_command(command) ==
    IF command.abs
    THEN IF \E p \in ALLOWED_STDIO_PREFIXES : StartsWithPrefix(command, p)
         THEN { command }
         ELSE { NoPath }
    ELSE { IF resolved # NoPath
              /\ \E p \in ALLOWED_STDIO_PREFIXES : StartsWithPrefix(resolved, p)
           THEN resolved
           ELSE NoPath : resolved \in which(command) }

\* the invoke.method values of the manifests, and str.upper() of each
InvokeMethods == {"GET", "post", "DELETE", "stdio", "STDIO", "SSE"}

Upper(method) ==
    CASE method = "post" -> "POST"
      [] method = "stdio" -> "STDIO"
      [] OTHER -> method

HttpMethods == {"GET", "POST", "PUT", "PATCH", "DELETE"}

\* the invoke.url values of the HTTP manifests and the Location targets
HttpUrls ==
    { "https://api.example/v1", "https://www.example/v1",
      "http://mcast.example/", "http://127.0.0.1/admin",
      "http://169.254.169.254/latest", "http://rebind.example/",
      "http://nxdomain.example/", "http:///admin" }

\* urlparse(url).hostname is empty
NoHostname == { "http:///admin" }

\* socket.getaddrinfo(hostname): the classes of the addresses, {} for gaierror
getaddrinfo(url) ==
    CASE url \in {"https://api.example/v1", "https://www.example/v1"} -> {"global"}
      [] url = "http://mcast.example/" -> {"multicast"}
      [] url = "http://127.0.0.1/admin" -> {"loopback"}
      [] url = "http://169.254.169.254/latest" -> {"link_local"}
      [] url = "http://rebind.example/" -> {"global", "private"}
      [] OTHER -> {}

\* ip.is_private or ip.is_loopback or ip.is_link_local
InvokerBlocked == {"private", "loopback", "link_local"}

\* _validate_http_url: TRUE when it returns, FALSE when it raises ValueError
validate_http_url(url) ==
    /\ url \notin NoHostname
    /\ getaddrinfo(url) # {}
    /\ getaddrinfo(url) \cap InvokerBlocked = {}

\* a redirect followed without a check of its target
RedirectUnchecked(url) == TRUE

\* the check of a redirect target inside the loop of _invoke_http
RedirectAllowed(url) == validate_http_url(url)

\* invoke_spec.headers as the tool executor hands it over: no headers, or
\* the injected credential
HeaderSets == {{}, {"Authorization"}}

\* the headers httpx's own redirect handling sends: the credential is
\* dropped once the request leaves the first URL
RequestHeadersStripped(headers, first_url, url) ==
    IF url = first_url THEN headers ELSE headers \ {"Authorization"}

\* headers=headers on every request of the loop
RequestHeaders(headers, first_url, url) == headers

NoCode == 0      \* http_code of a result that has none

\* status codes an endpoint answers with
StatusCodes == {200, 204, 302, 304, 404}

\* success for every code from 200 up to 399
is_below_400(code) == code >= 200 /\ code < 400

\* httpx.Response.is_success: the 2xx codes
is_success(code) == code >= 200 /\ code <= 299

\* httpx.Response.is_redirect: the 3xx codes
is_redirect(code) == code >= 300 /\ code <= 399

\* f"HTTP {resp.status_code}"
HttpError(code) ==
    CASE code = 200 -> "HTTP 200"
      [] code = 204 -> "HTTP 204"
      [] code = 302 -> "HTTP 302"
      [] code = 304 -> "HTTP 304"
      [] code = 404 -> "HTTP 404"

IdleInvoke ==
    [ pc |-> "idle", method |-> None, url |-> None, command |-> NoPath,
      headers |-> {}, first_url |-> None, redirects |-> 0,
      http_code |-> NoCode, stdin_text |-> "none", proc |-> "none",
      requests |-> 0, guard |-> None, sent |-> <<>>, seen |-> {},
      resolved |-> NoPath, spawned |-> NoPath,
      status |-> None, error |-> None ]

Finished(i, status, error) ==
    [ i EXCEPT !.pc = "done", !.status = status, !.error = error ]

\* the InvocationResult _invoke_http builds from its last response
Responded(i, code) ==
    [ Finished(i, IF is_success(code) THEN "success" ELSE "failure",
                  IF is_success(code) THEN None ELSE HttpError(code))
        EXCEPT !.http_code = code ]

\* stdin_text as the callers pass it: None, a string, or a value that
\* .encode() raises on (the "stdin" argument of a tool call is forwarded
\* as the LLM wrote it, so it can be a number or a list)
StdinTexts == {"none", "text", "not_text"}

\* invoke_manifest, method STDIO: the allow-list check, then _invoke_stdio
\* up to the start of the subprocess
InvokeStdio(method, command) ==
    \E resolved \in validate_stdio_command(command) :
      LET i == [ IdleInvoke EXCEPT !.method = method, !.command = command,
                                   !.resolved = resolved ]
      IN IF resolved = NoPath
         THEN inv' = Finished(i, "failure", "Blocked")
         ELSE \/ \* create_subprocess_exec raises FileNotFoundError
                 inv' = Finished(i, "failure", "Command not found")
              \/ \* the subprocess is started
                 \E stdin_text \in StdinTexts :
                   inv' = [ i EXCEPT !.pc = "stdio", !.spawned = resolved,
                                     !.stdin_text = stdin_text,
                                     !.proc = "running" ]

\* invoke_manifest, an HTTP method: the check of invoke.url before _invoke_http
InvokeHttp(method, url, headers) ==
    LET i == [ IdleInvoke EXCEPT !.method = method, !.url = url,
                                 !.headers = headers, !.first_url = url,
                                 !.seen = {url} ]
    IN IF validate_http_url(url)
       THEN inv' = [ i EXCEPT !.pc = "http", !.guard = url ]
       ELSE inv' = Finished(i, "failure", "SSRF blocked")

\* invoke_manifest up to its first await; a call shares nothing with the
\* calls before it, so one call is followed from the idle state
InvokeManifest ==
    /\ inv.pc = "idle"
    /\ \E method \in InvokeMethods :
         IF Upper(method) = "STDIO"
         THEN \E command \in StdioCommands : InvokeStdio(method, command)
         ELSE IF Upper(method) \in HttpMethods
         THEN \E url \in HttpUrls, headers \in HeaderSets :
                InvokeHttp(method, url, headers)
         ELSE inv' = Finished([ IdleInvoke EXCEPT !.method = method ],
                              "failure", "Unsupported invoke method")
    /\ UNCHANGED <<expVars, chatVars, libVars, trustVars>>

\* _invoke_stdio after the start of the subprocess: stdin_text.encode(),
\* then communicate() under wait_for
StdioCommunicate ==
    /\ inv.pc = "stdio"
    /\ IF inv.stdin_text = "not_text"
       THEN \* encode raises; caught by `except Exception`
            inv' = Finished(inv, "failure", "exception")
       ELSE \/ \* the process exits and communicate returns
               \E outcome \in { <<"success", None>>, <<"failure", "stderr">> } :
                 inv' = Finished([ inv EXCEPT !.proc = "reaped" ],
                                 outcome[1], outcome[2])
            \/ \* wait_for raises TimeoutError
               inv' = [ inv EXCEPT !.pc = "stdio_timeout" ]
    /\ UNCHANGED <<expVars, chatVars, libVars, trustVars>>

\* the handler of the timeout: proc.kill()
StdioKill ==
    /\ inv.pc = "stdio_timeout"
    /\ \/ \* the signal is sent
          inv' = [ inv EXCEPT !.pc = "stdio_wait", !.proc = "killed" ]
       \/ \* the process has exited meanwhile: kill raises, `except: pass`
          inv' = Finished([ inv EXCEPT !.proc = "reaped" ],
                          "failure", "stdio timeout")
    /\ UNCHANGED <<expVars, chatVars, libVars, trustVars>>

\* await proc.wait() returns once the process is reaped
StdioWait ==
    /\ inv.pc = "stdio_wait"
    /\ inv' = Finished([ inv EXCEPT !.proc = "reaped" ],
                       "failure", "stdio timeout")
    /\ UNCHANGED <<expVars, chatVars, libVars, trustVars>>

\* one pass of the loop of _invoke_http: a request and what follows its reply
InvokeHttpRequest ==
    /\ inv.pc = "http"
    /\ LET i == [ inv EXCEPT
                    !.requests = @ + 1,
                    !.guard = None,
                    !.sent = Append(@, [ url |-> inv.url,
                                         guarded |-> inv.guard = inv.url,
                                         headers |->
                                             RequestHeaders(inv.headers,
                                                 inv.first_url, inv.url) ]) ]
       IN \/ \* a response that is no redirect, or a redirect without Location
             \E code \in StatusCodes : inv' = Responded(i, code)
          \/ \E error \in {"HTTP timeout", "exception"} :
               inv' = Finished(i, "failure", error)
          \/ \E code \in { c \in StatusCodes : is_redirect(c) },
                location \in HttpUrls :
               LET j == [ i EXCEPT !.url = location, !.seen = @ \cup {location},
                                   !.redirects = @ + 1 ]
               IN IF ~RedirectAllowed(location)
                  THEN inv' = Finished(j, "failure", "exception")
                  ELSE IF i.requests = MaxRedirects + 1
                  THEN inv' = Responded([ j EXCEPT !.guard = location ], code)
                  ELSE inv' = [ j EXCEPT !.guard = location ]
    /\ UNCHANGED <<expVars, chatVars, libVars, trustVars>>

----------------------------------------------------------------------------
(* oap_trust: URL validation, manifest fetch and capability test *)

Url(scheme, host, path) == [ scheme |-> scheme, host |-> host, path |-> path ]

NoUrl == Url("", "", "")     \* a missing URL

TrustDomains == {"example.com", "tools.example.org", "intranet.test"}

\* socket.getaddrinfo(hostname) in the trust service: the classes of the
\* addresses, {} for gaierror; an IP literal resolves to itself
host_addrs(host) ==
    CASE host \in {"example.com", "tools.example.org", "cdn.example.net"} ->
            {"global"}
      [] host = "intranet.test" -> {"private"}
      [] host = "mcast.example.net" -> {"multicast"}
      [] host = "169.254.169.254" -> {"link_local"}
      [] OTHER -> {}

\* _is_private_ip
is_private_ip(class) ==
    class \in {"private", "loopback", "link_local", "reserved", "multicast"}

\* _validate_url with allow_http = False: TRUE when it returns the URL,
\* FALSE when it raises ValueError
validate_url(url) ==
    /\ url.scheme = "https"
    /\ url.host # ""
    /\ host_addrs(url.host) # {}
    /\ \A class \in host_addrs(url.host) : ~is_private_ip(class)

\* where a server may redirect a request to
RedirectTargets == { Url("http", "169.254.169.254", "/latest/meta-data") }

\* client.get / client.head / client.post with follow_redirects=True: the
\* requests that leave the service.  `validated` tells whether _validate_url
\* accepted the URL before the call; httpx follows a redirect on its own.
httpx_request(by, url, validated) ==
    LET first == [ by |-> by, url |-> url, validated |-> validated ]
    IN { {first} } \cup
       { {first, [ by |-> by, url |-> target, validated |-> FALSE ]} :
            target \in RedirectTargets }

ManifestUrl(domain) == Url("https", domain, "/.well-known/oap.json")

\* the URL of the challenge file; the token that ends its path is left out
ChallengeUrl(domain) == Url("https", domain, "/.well-known/oap-challenge")

InvokeUrl == Url("https", "example.com", "/api")

HealthUrl == Url("https", "example.com", "/health")

Manifest(method, url, auth, health, examples) ==
    [ method |-> method, url |-> url, auth |-> auth, health |-> health,
      examples |-> examples ]

NoManifest == Manifest(None, NoUrl, None, NoUrl, FALSE)

DefaultManifest == Manifest("GET", InvokeUrl, None, NoUrl, FALSE)

\* the manifests a publisher may serve
Manifests ==
    { DefaultManifest,
      Manifest("POST", InvokeUrl, "none", HealthUrl, TRUE),
      Manifest("GET", Url("https", "intranet.test", "/api"), None, NoUrl, FALSE),
      Manifest("GET", Url("http", "example.com", "/api"), None, NoUrl, FALSE),
      Manifest("GET", Url("https", "mcast.example.net", "/api"), None, NoUrl, FALSE),
      Manifest("GET", InvokeUrl, "api_key", NoUrl, FALSE),
      Manifest("GET", InvokeUrl, None,
               Url("https", "intranet.test", "/health"), FALSE),
      Manifest("stdio", Url("", "", "grep"), None, NoUrl, FALSE),
      Manifest("stdio", InvokeUrl, None, NoUrl, FALSE),
      Manifest("GET", NoUrl, None, NoUrl, FALSE) }

\* fetch_manifest: the request chain and, when the fetch succeeds, the
\* manifest the domain serves
fetch_manifest(domain, served) ==
    IF ~validate_url(ManifestUrl(domain))
    THEN { [ ok |-> FALSE, manifest |-> NoManifest, requests |-> {} ] }
    ELSE UNION { { [ ok |-> FALSE, manifest |-> NoManifest, requests |-> chain ],
                   [ ok |-> TRUE, manifest |-> served, requests |-> chain ] } :
                 chain \in httpx_request("manifest", ManifestUrl(domain), TRUE) }

Unset == "unset"    \* health_ok and example_passed left at None

TestResult(live, health_ok, example_passed, passed, requests) ==
    [ endpoint_live |-> live, health_ok |-> health_ok,
      example_passed |-> example_passed, passed |-> passed,
      requests |-> requests ]

Refused == TestResult(FALSE, Unset, Unset, FALSE, {})

\* Test 2 of test_capability: the health endpoint
HealthOutcomes(manifest) ==
    IF manifest.health = NoUrl THEN { [ ok |-> Unset, requests |-> {} ] }
    ELSE IF ~validate_url(manifest.health)
    THEN { [ ok |-> "false", requests |-> {} ] }
    ELSE { [ ok |-> ok, requests |-> chain ] :
             ok \in {"true", "false"},
             chain \in httpx_request("health", manifest.health, TRUE) }

\* Test 3 of test_capability: the first example, against a live endpoint.
\* examples[0].get("input") is evaluated before the try block: a first
\* example that is not a JSON object raises AttributeError
ExampleOutcomes(manifest, method, live) ==
    IF manifest.examples /\ live
    THEN { [ ok |-> "AttributeError", requests |-> {} ] }
         \cup (IF method \in {"GET", "POST"}
               THEN { [ ok |-> ok, requests |-> chain ] :
                        ok \in {"true", "false"},
                        chain \in httpx_request("example", manifest.url, TRUE) }
               ELSE { [ ok |-> Unset, requests |-> {} ] })
    ELSE { [ ok |-> Unset, requests |-> {} ] }

\* test_capability: the results it may return with the requests it sent; an
\* exception that leaves it is recorded in example_passed, with passed false
test_capability(manifest) ==
    LET method == Upper(manifest.method)
    IN IF method = "stdio" THEN { Refused }
       ELSE IF manifest.url = NoUrl THEN { Refused }
       ELSE IF ~validate_url(manifest.url) THEN { Refused }
       ELSE IF manifest.auth # None /\ manifest.auth # "none" THEN { Refused }
       ELSE UNION {
              { TestResult(live, h.ok, e.ok,
                           live /\ h.ok # "false" /\ e.ok # "AttributeError",
                           chain \cup h.requests \cup e.requests) :
                  chain \in httpx_request("liveness", manifest.url, TRUE),
                  h \in HealthOutcomes(manifest),
                  e \in ExampleOutcomes(manifest, method, live) } :
              live \in BOOLEAN }

----------------------------------------------------------------------------
(* oap_trust: TrustStore and AttestationService *)

Callers == {"c1", "c2"}    \* requests the API serves at the same time

NoToken == 0

\* datetime.now() advances by half the life of a challenge
TickSeconds == ChallengeTtlSeconds \div 2

\* create_challenge; the token of generate_token is fresh
create_challenge(rows, domain, method, t) ==
    Append(rows, [ domain |-> domain, token |-> Len(rows) + 1,
                   method |-> method, status |-> "pending",
                   created_at |-> t, expires_at |-> t + ChallengeTtlSeconds ])

\* get_pending_challenge ordered by created_at ASC
get_oldest_pending_challenge(rows, domain, t) ==
    LET eligible == { k \in 1..Len(rows) :
                        /\ rows[k].domain = domain
                        /\ rows[k].status = "pending"
                        /\ rows[k].expires_at > t }
    IN { k \in eligible :
           \A other \in eligible : rows[other].created_at >= rows[k].created_at }

\* get_pending_challenge: the rows the query may return, {} for None
get_pending_challenge(rows, domain, t) ==
    LET eligible == { k \in 1..Len(rows) :
                        /\ rows[k].domain = domain
                        /\ rows[k].status = "pending"
                        /\ rows[k].expires_at > t }
    IN { k \in eligible :
           \A other \in eligible : rows[other].created_at <= rows[k].created_at }

\* mark_challenge_verified that updates no row
mark_challenge_skipped(rows, token) == rows

\* mark_challenge_verified
mark_challenge_verified(rows, token) ==
    [ k \in 1..Len(rows) |->
        IF rows[k].token = token
        THEN [ rows[k] EXCEPT !.status = "verified" ]
        ELSE rows[k] ]

\* datetime.now(timezone.utc): whole seconds and microseconds
Instant(sec, usec) == [ sec |-> sec, usec |-> usec ]

\* the microsecond part of the clock when a signature is made or verified:
\* not zero, as in all but one reading in a million
Microseconds == {500000}

\* the microsecond parts of the clock when a query reads it
QueryMicroseconds == {0, 250000, 500000, 750000}

\* a > b on instants
Later(a, b) == a.sec > b.sec \/ (a.sec = b.sec /\ a.usec > b.usec)

DaySeconds == 86400

\* cfg.attestation.layer1_expiry_days and layer2_expiry_days
Layer1ExpiryDays == 90
Layer2ExpiryDays == 7

\* the number of days taken for seconds
PlusDaysAsSeconds(t, days) == Instant(t.sec + days, t.usec)

\* now + timedelta(days=expiry_days)
PlusDays(t, days) == Instant(t.sec + days * DaySeconds, t.usec)

\* int(t.timestamp()): the fraction of the second is cut off
timestamp_int(t) == t.sec

\* the characters '+' and '.' of an ISO string
CharPlus == 43
CharDot == 46

\* t.isoformat() of an aware UTC datetime: the date and time to the second
\* (fixed width, so one element that compares like the text), then the six
\* digits of the microseconds after a dot unless they are zero, then +00:00
isoformat(t) ==
    IF t.usec = 0 THEN <<t.sec, CharPlus>>
    ELSE <<t.sec, CharDot, t.usec, CharPlus>>

\* datetime.fromisoformat
fromisoformat(s) ==
    IF s[2] = CharDot THEN Instant(s[1], s[3]) ELSE Instant(s[1], 0)

\* a > b on strings: the first position where they differ decides
RECURSIVE TextGreater(_, _)
TextGreater(a, b) ==
    IF a = <<>> THEN FALSE
    ELSE IF b = <<>> THEN TRUE
    ELSE IF Head(a) # Head(b) THEN Head(a) > Head(b)
    ELSE TextGreater(Tail(a), Tail(b))

\* KeyManager: the keypair the service loaded, and another one
ServiceKey == "service_key"
OtherKey == "other_key"

\* private_key.public_key(): a key pair is named by one name
public_key(private_key) == private_key

\* a token signed with a key the service does not hold
sign_with_other_key(payload, private_key) ==
    [ kid |-> "oap-trust-1", signed_by |-> OtherKey,
      payload |-> [ payload EXCEPT !.exp_as = "int" ] ]

\* jwt.encode(payload, private_key, algorithm="EdDSA", headers={"kid": ...}):
\* an exp given as a datetime is written as its integer timestamp
sign(payload, private_key) ==
    [ kid |-> "oap-trust-1", signed_by |-> private_key,
      payload |-> [ payload EXCEPT !.exp_as = "int" ] ]

\* jwt.decode(token, public_key, algorithms=["EdDSA"]) at instant t: the
\* signature, then exp, then aud, which no caller of verify expects
verify(token, key, t) ==
    [ error |->
        IF token.signed_by # key THEN "InvalidSignatureError"
        ELSE IF ~Later(Instant(token.payload.exp, 0), t)
        THEN "ExpiredSignatureError"
        ELSE IF token.payload.aud # None THEN "InvalidAudienceError"
        ELSE None,
      claims |-> token.payload ]

\* the row is replaced when the domain has one of that layer
upsert_attestation(rows, row) ==
    IF \E k \in 1..Len(rows) :
          rows[k].domain = row.domain /\ rows[k].layer = row.layer
    THEN [ k \in 1..Len(rows) |->
             IF rows[k].domain = row.domain /\ rows[k].layer = row.layer
             THEN row ELSE rows[k] ]
    ELSE Append(rows, row)

\* store_attestation: INSERT INTO attestations
store_attestation(rows, row) == Append(rows, row)

\* _sign_attestation: the row store_attestation inserts
sign_attestation(rows, domain, layer, manifest, method, token, expiry_days, t) ==
    LET expires == PlusDays(t, expiry_days)
        payload == [ iss |-> "oap-trust-reference", sub |-> domain,
                     iat |-> timestamp_int(t),
                     exp |-> timestamp_int(expires),
                     exp_as |-> "int", aud |-> None,
                     oap_layer |-> layer, oap_manifest_hash |-> manifest,
                     oap_verification_method |-> method ]
    IN  store_attestation(rows,
            [ domain |-> domain, layer |-> layer, manifest |-> manifest,
              verification_method |-> method, challenge |-> token,
              jws |-> sign(payload, ServiceKey),
              issued_at |-> isoformat(t),
              expires_at |-> isoformat(expires) ])

\* what one call of _sign_attestation was asked for and when
Issued(domain, layer, expiry_days, t) ==
    [ domain |-> domain, layer |-> layer, issued_at |-> t,
      expires_at |-> PlusDays(t, expiry_days) ]

\* TrustStore.get_attestations: the ids of the rows of the domain that have
\* not expired at t (the order of the result is left out)
get_attestations(rows, domain, t) ==
    { k \in 1..Len(rows) :
        /\ rows[k].domain = domain
        /\ TextGreater(rows[k].expires_at, isoformat(t)) }

IdleCall ==
    [ pc |-> "idle", domain |-> None, token |-> NoToken, method |-> None,
      satisfied |-> FALSE, fetched |-> FALSE,
      challenge_verified |-> FALSE, attestation |-> 0, error |-> None ]

IdleCapability ==
    [ domain |-> None, manifest |-> NoManifest, fetched |-> FALSE,
      result |-> Refused, attestation |-> 0 ]

\* datetime.now() moves on
TrustTick ==
    /\ tnow < MaxTicks * TickSeconds
    /\ tnow' = tnow + TickSeconds
    /\ outbound' = {}
    /\ UNCHANGED <<expVars, chatVars, libVars, inv, challenges, attestations, vcall,
                   cap, published>>

\* the days that pass between two calls
LeapDays == {Layer2ExpiryDays, Layer1ExpiryDays}

\* datetime.now() moves on by days
TimeLeap ==
    /\ tnow < MaxLeaps * Layer2ExpiryDays * DaySeconds
    /\ \E days \in LeapDays : tnow' = tnow + days * DaySeconds
    /\ outbound' = {}
    /\ UNCHANGED <<expVars, chatVars, libVars, inv, challenges, attestations, vcall,
                   cap, published>>

\* the publisher of a domain replaces its manifest
Publish ==
    /\ \E manifest \in Manifests :
         published' = [ published EXCEPT !["example.com"] = manifest ]
    /\ outbound' = {}
    /\ UNCHANGED <<expVars, chatVars, libVars, inv, challenges, attestations, vcall,
                   cap, tnow>>

\* the (domain, method) pairs of the requests to POST /v1/attest/domain
InitiateRequests ==
    { <<"example.com", "dns">>, <<"tools.example.org", "http">>,
      <<"intranet.test", "dns">> }

\* the JSON documents a domain may serve at /.well-known/oap.json
Layer0Bodies ==
    { "valid", "missing_fields", "unknown_version", "not_an_object" }

\* check_layer0: "passed" or "failed" for the Layer0Result it returns, or the
\* exception that leaves it
check_layer0(f, body) ==
    IF ~f.ok THEN "failed"                      \* the fetch raised: caught
    ELSE IF body = "not_an_object" THEN "AttributeError"  \* manifest.keys()
    ELSE IF body = "valid" THEN "passed"
    ELSE "failed"

IdleInitiate == [ layer0 |-> None, error |-> None, token |-> NoToken ]

\* initiate_domain_attestation: Layer 0, then the challenge
InitiateDomainAttestation ==
    /\ Len(challenges) < MaxChallenges
    /\ \E request \in InitiateRequests :
       \E f \in fetch_manifest(request[1], published[request[1]]) :
       \E body \in (IF f.ok THEN Layer0Bodies ELSE {"none"}) :
         LET layer0 == check_layer0(f, body) IN
         /\ outbound' = f.requests
         /\ IF layer0 = "passed"
            THEN /\ challenges' = create_challenge(challenges, request[1],
                                                   request[2], tnow)
                 /\ icall' = [ layer0 |-> layer0, error |-> None,
                               token |-> Len(challenges) + 1 ]
            ELSE /\ UNCHANGED challenges
                 /\ icall' = [ layer0 |-> layer0,
                               error |-> IF layer0 = "failed"
                                         THEN "ValueError" ELSE layer0,
                               token |-> NoToken ]
    /\ UNCHANGED <<expVars, chatVars, storeCall, inflight, disc, issued, kcall, toolVars, inv,
                   attestations, vcall, cap, tnow, published>>

\* verify_challenge: what the verifier may answer with the requests it sent
verify_challenge(domain, method) ==
    IF method = "dns"
    THEN { [ verified |-> v, requests |-> {} ] : v \in BOOLEAN }
    ELSE { [ verified |-> v, requests |-> chain ] :
             v \in BOOLEAN,
             chain \in httpx_request("challenge", ChallengeUrl(domain), FALSE) }

\* a failed verification that uses the challenge up
VerifiedOrSpent(c, call, answer) ==
    /\ outbound' = answer.requests
    /\ challenges' = mark_challenge_verified(challenges, call.token)
    /\ IF answer.verified
       THEN vcall' = [ vcall EXCEPT ![c] =
                         [ call EXCEPT !.pc = "fetching", !.satisfied = TRUE ] ]
       ELSE vcall' = [ vcall EXCEPT ![c] =
                         [ call EXCEPT !.pc = "done",
                                       !.error = "Challenge not verified" ] ]

\* verify_domain_attestation from the verifier's answer to the next await
Verified(c, call, answer) ==
    /\ outbound' = answer.requests
    /\ IF answer.verified
       THEN /\ challenges' = mark_challenge_verified(challenges, call.token)
            /\ vcall' = [ vcall EXCEPT ![c] =
                             [ call EXCEPT !.pc = "fetching",
                                           !.satisfied = TRUE ] ]
       ELSE /\ vcall' = [ vcall EXCEPT ![c] =
                             [ call EXCEPT !.pc = "done",
                                           !.error = "Challenge not verified" ] ]
            /\ UNCHANGED challenges

\* verify_domain_attestation up to its first await: the HTTP verifier
\* suspends the call, the DNS verifier answers without suspending it
VerifyStart(c) ==
    /\ vcall[c].pc \in {"idle", "done"}
    /\ \E domain \in TrustDomains :
         LET found == get_pending_challenge(challenges, domain, tnow)
         IN IF found = {}
            THEN /\ vcall' = [ vcall EXCEPT ![c] =
                                 [ IdleCall EXCEPT
                                     !.pc = "done", !.domain = domain,
                                     !.error = "No pending challenge" ] ]
                 /\ outbound' = {}
                 /\ UNCHANGED challenges
            ELSE \E k \in found :
                   LET call == [ IdleCall EXCEPT
                                   !.pc = "verifying", !.domain = domain,
                                   !.token = challenges[k].token,
                                   !.method = challenges[k].method ]
                   IN IF call.method = "dns"
                      THEN \E answer \in verify_challenge(domain, "dns") :
                             Verified(c, call, answer)
                      ELSE /\ vcall' = [ vcall EXCEPT ![c] = call ]
                           /\ outbound' = {}
                           /\ UNCHANGED challenges
    /\ UNCHANGED <<expVars, chatVars, libVars, inv, attestations, cap, tnow, published>>

\* verify_domain_attestation resumed by the reply to the HTTP verifier
VerifyChallenge(c) ==
    /\ vcall[c].pc = "verifying"
    /\ \E answer \in verify_challenge(vcall[c].domain, vcall[c].method) :
         Verified(c, vcall[c], answer)
    /\ UNCHANGED <<expVars, chatVars, libVars, inv, attestations, cap, tnow, published>>

\* verify_domain_attestation from the manifest re-fetch to its return
VerifyFinish(c) ==
    /\ vcall[c].pc = "fetching"
    /\ \E f \in fetch_manifest(vcall[c].domain, published[vcall[c].domain]),
          usec \in Microseconds :
         /\ outbound' = f.requests
         /\ IF f.ok
            THEN /\ attestations' =
                      sign_attestation(attestations, vcall[c].domain, 1,
                                       f.manifest, vcall[c].method,
                                       vcall[c].token, Layer1ExpiryDays,
                                       Instant(tnow, usec))
                 /\ issued' = Append(issued,
                                     Issued(vcall[c].domain, 1, Layer1ExpiryDays,
                                            Instant(tnow, usec)))
                 /\ vcall' = [ vcall EXCEPT ![c].pc = "done",
                                            ![c].fetched = TRUE,
                                            ![c].challenge_verified = TRUE,
                                            ![c].attestation = Len(attestations) + 1 ]
            ELSE /\ vcall' = [ vcall EXCEPT ![c].pc = "done",
                                            ![c].challenge_verified = TRUE,
                                            ![c].error = "failed to fetch manifest" ]
                 /\ UNCHANGED <<attestations, issued>>
    /\ UNCHANGED <<expVars, chatVars, storeCall, inflight, disc, icall, kcall, toolVars, inv,
                   challenges, cap, tnow, published>>

\* attest_capability
AttestCapability ==
    /\ Len(attestations) < MaxAttestations
    /\ \E domain \in TrustDomains :
       \E f \in fetch_manifest(domain, published[domain]) :
         IF ~f.ok
         THEN /\ cap' = [ IdleCapability EXCEPT !.domain = domain ]
              /\ outbound' = f.requests
              /\ UNCHANGED <<attestations, issued>>
         ELSE \E result \in test_capability(f.manifest), usec \in Microseconds :
                /\ outbound' = f.requests \cup result.requests
                /\ IF result.passed
                   THEN /\ attestations' =
                             sign_attestation(attestations, domain, 2, f.manifest,
                                              "capability_test", NoToken,
                                              Layer2ExpiryDays,
                                              Instant(tnow, usec))
                        /\ issued' = Append(issued,
                                            Issued(domain, 2, Layer2ExpiryDays,
                                                   Instant(tnow, usec)))
                        /\ cap' = [ domain |-> domain, manifest |-> f.manifest,
                                    fetched |-> TRUE, result |-> result,
                                    attestation |-> Len(attestations) + 1 ]
                   ELSE /\ cap' = [ domain |-> domain, manifest |-> f.manifest,
                                    fetched |-> TRUE, result |-> result,
                                    attestation |-> 0 ]
                        /\ UNCHANGED <<attestations, issued>>
    /\ UNCHANGED <<expVars, chatVars, storeCall, inflight, disc, icall, kcall, toolVars, inv,
                   challenges, vcall, tnow, published>>

----------------------------------------------------------------------------
(* tool_executor: _split_chunks *)

Newline == "\n"

\* the characters of a tool result: a newline and any other character
TextChars == {"a", Newline}

Texts == UNION { [1..n -> TextChars] : n \in 0..MaxText }

ChunkSizes == 1..MaxChunkSize

\* text[start:end] of a Python str, indices counted from 0
Slice(text, start, end) == SubSeq(text, start + 1, Min(end, Len(text)))

\* text.rfind(ch, start, end): the highest index in [start, end) that holds
\* ch, or -1
rfind(text, ch, start, end) ==
    LET found == { i \in start..(Min(end, Len(text)) - 1) : text[i + 1] = ch }
    IN  IF found = {} THEN -1
        ELSE CHOOSE i \in found : \A j \in found : j <= i

\* end = nl + 1 whatever rfind returned
SplitEndUnguarded(nl, start, end) == nl + 1

\* if nl > start: end = nl + 1
SplitEnd(nl, start, end) == IF nl > start THEN nl + 1 ELSE end

IdleSplit ==
    [ pc |-> "idle", text |-> <<>>, chunk_size |-> 1, start |-> 0,
      chunks |-> <<>> ]

\* _split_chunks(text, chunk_size) is called
SplitCall ==
    /\ split.pc = "idle"
    /\ \E text \in Texts, chunk_size \in ChunkSizes :
         split' = [ IdleSplit EXCEPT !.pc = "loop", !.text = text,
                                     !.chunk_size = chunk_size ]
    /\ UNCHANGED <<expVars, chatVars, svcVars, storeCall, inflight, disc, icall,
                   issued, kcall, ecall, invocations>>

\* one pass of `while start < len(text)`, or the return when its test fails
SplitStep ==
    /\ split.pc = "loop"
    /\ IF ~(split.start < Len(split.text))
       THEN split' = [ split EXCEPT !.pc = "done" ]
       ELSE LET end == split.start + split.chunk_size IN
            IF end >= Len(split.text)
            THEN split' = [ split EXCEPT
                     !.chunks = Append(@, Slice(split.text, split.start,
                                                Len(split.text))),
                     !.pc = "done" ]
            ELSE LET nl == rfind(split.text, Newline, split.start, end)
                     cut == SplitEnd(nl, split.start, end)
                 IN  split' = [ split EXCEPT
                         !.chunks = Append(@, Slice(split.text, split.start, cut)),
                         !.start = cut ]
    /\ UNCHANGED <<expVars, chatVars, svcVars, storeCall, inflight, disc, icall,
                   issued, kcall, ecall, invocations>>

----------------------------------------------------------------------------
(* ExperienceEngine.process: the calls of one request *)

Space == " "

\* value_used of a ParameterMapping: a string, kept as its characters
ParamValues == { <<>>, <<"a">> }

\* param_mappings: the values of the dict in insertion order; {} when the
\* LLM names no parameter or the extraction fails
ParamMappings ==
    { <<>> } \cup { <<v>> : v \in ParamValues }
             \cup { <<v, w>> : v, w \in ParamValues }

\* " ".join(values)
RECURSIVE Join(_)
Join(values) ==
    IF values = <<>> THEN <<>>
    ELSE IF Len(values) = 1 THEN values[1]
    ELSE values[1] \o <<Space>> \o Join(Tail(values))

\* an argument that may be None
Some(v) == [ none |-> FALSE, v |-> v ]
Nothing == [ none |-> TRUE, v |-> <<>> ]

InvokeSpec(method, url, headers, auth) ==
    [ method |-> method, url |-> url, headers |-> headers, auth |-> auth ]

\* match.invoke of the manifest discovery matched; `headers or {}` is the
\* set of the names of the required headers
InvokeOf(domain) ==
    CASE domain = "grep" -> InvokeSpec("stdio", "grep", {}, None)
      [] domain = "jq" -> InvokeSpec("POST", "https://tools.example.org/jq",
                                     {"X-Api-Version"}, "api_key")
      [] OTHER -> InvokeSpec("GET", "https://example.com/wc", {}, None)

\* the manifests discovery matches
MatchDomains == {"grep", "jq"}

\* the distance of the match
MatchScores == {160}

\* the fingerprint the LLM gives the tasks
EngineFingerprints == {FpGrep}

\* params and stdin_text with the values as positional arguments
BuildArgsArgv(method, mapping) ==
    IF mapping # <<>>
    THEN [ params |-> Some(mapping), stdin_text |-> Nothing ]
    ELSE [ params |-> Nothing, stdin_text |-> Nothing ]

\* params and stdin_text as each of the three paths builds them
BuildArgs(method, mapping) ==
    IF mapping # <<>>
    THEN IF Upper(method) = "STDIO"
         THEN [ params |-> Nothing, stdin_text |-> Some(Join(mapping)) ]
         ELSE [ params |-> Some(mapping), stdin_text |-> Nothing ]
    ELSE [ params |-> Nothing, stdin_text |-> Nothing ]

\* invoke_manifest(invoke_spec, params, stdin_text=stdin_text): the arguments
\* and, for stdio, the argv and the stdin of the subprocess
Call(spec, args) ==
    LET stdio == Upper(spec.method) = "STDIO" IN
    [ method |-> spec.method, url |-> spec.url,
      headers |-> spec.headers, auth |-> spec.auth,
      params |-> args.params, stdin_text |-> args.stdin_text,
      argv |-> IF stdio
               THEN << <<spec.url>> >> \o
                    (IF args.params.none THEN <<>> ELSE args.params.v)
               ELSE <<>>,
      stdin |-> IF stdio /\ ~args.stdin_text.none /\ args.stdin_text.v # <<>>
                THEN "PIPE" ELSE None ]

NoCall == Call(InvokeSpec(None, None, {}, None), BuildArgs(None, <<>>))

\* the invocation column of an empty table
NoInvocations == {}

\* InvocationRecord of the row `id`, with the call of the request that saved
\* the row
InvocationRecord(column, id) == CHOOSE record \in column : record.id = id

\* the column after INSERT OR REPLACE of the row `id`
save_invocation(column, id, spec, mapping, call) ==
    { record \in column : record.id # id }
    \cup { [ id |-> id, endpoint |-> spec.url, method |-> spec.method,
             parameter_mapping |-> mapping, created |-> call ] }

IdleEngine ==
    [ n |-> 0, path |-> None, discover |-> FALSE, extract |-> FALSE,
      matched |-> FALSE, mapping |-> <<>>, call |-> NoCall,
      saved |-> NoId, touched |-> NoId ]

\* path 1 with a discovery in front of the invocation
EnginePath1Rediscovering(id) ==
    LET record == InvocationRecord(invocations, id)
        spec == InvokeSpec(record.method, record.endpoint, {}, None)
    IN  /\ experiences' = touch(experiences, id, now)
        /\ now' = now + 1
        /\ ecall' = [ n |-> ecall.n + 1, path |-> "cache_hit",
                      discover |-> TRUE, extract |-> FALSE,
                      matched |-> FALSE,
                      mapping |-> record.parameter_mapping,
                      call |-> Call(spec, BuildArgs(spec.method,
                                                    record.parameter_mapping)),
                      saved |-> NoId, touched |-> id ]
        /\ UNCHANGED invocations

\* _path1_cache_hit
EnginePath1(id) ==
    LET record == InvocationRecord(invocations, id)
        spec == InvokeSpec(record.method, record.endpoint, {}, None)
    IN  /\ experiences' = touch(experiences, id, now)
        /\ now' = now + 1
        /\ ecall' = [ n |-> ecall.n + 1, path |-> "cache_hit",
                      discover |-> FALSE, extract |-> FALSE,
                      matched |-> FALSE,
                      mapping |-> record.parameter_mapping,
                      call |-> Call(spec, BuildArgs(spec.method,
                                                    record.parameter_mapping)),
                      saved |-> NoId, touched |-> id ]
        /\ UNCHANGED invocations

\* a no-match response of path 2 that touches the template
CandidatesOnlyTouching(path, template) ==
    /\ ecall' = [ IdleEngine EXCEPT !.n = ecall.n + 1, !.path = path,
                                    !.discover = TRUE ]
    /\ experiences' = IF template = NoId THEN experiences
                      ELSE touch(experiences, template, now)
    /\ UNCHANGED <<now, invocations>>

\* paths 2 and 3: if not discover_result.match
CandidatesOnly(path, template) ==
    /\ ecall' = [ IdleEngine EXCEPT !.n = ecall.n + 1, !.path = path,
                                    !.discover = TRUE ]
    /\ UNCHANGED <<experiences, now, invocations>>

\* paths 2 and 3: discover, extract the parameters, invoke, save
EngineDiscover(path, template, fp, idom) ==
    \/ CandidatesOnly(path, template)
    \/ \E m \in MatchDomains, mapping \in ParamMappings, score \in MatchScores,
          status \in {"success", "failure"} :
         LET spec == InvokeOf(m)
             call == Call(spec, BuildArgs(spec.method, mapping))
             id == make_experience_id(today, fp, m)
         IN  /\ experiences' =
                   save(experiences, id,
                        NewRecord(fp, idom, m, DiscoveryConfidence(score),
                                  status, now))
             /\ invocations' =
                   save_invocation(invocations, id, spec, mapping, call)
             /\ now' = now + 1
             /\ ecall' = [ n |-> ecall.n + 1, path |-> path,
                           discover |-> TRUE, extract |-> TRUE,
                           matched |-> TRUE, mapping |-> mapping,
                           call |-> call, saved |-> id, touched |-> NoId ]

\* ExperienceEngine.process, with the calls it makes
EngineCall ==
    /\ ecall.n < MaxEngineCalls
    /\ \E threshold \in Thresholds, idom \in IntentDomains :
       \/ \* fingerprinting failed
          EngineDiscover("full_discovery", NoId, FpUnknown, "unknown")
       \/ \E fp \in EngineFingerprints :
          \E exact \in find_by_fingerprint(experiences, fp, FindLimit) :
            LET hit == FirstEligible(experiences, exact, threshold) IN
            IF hit # 0
            THEN EnginePath1(exact[hit])
            ELSE IF TriesPartialMatch(fp)
                 THEN \E similar \in find_similar(experiences, idom,
                                                  Prefix(fp), FindLimit) :
                        IF similar # <<>>
                        THEN EngineDiscover("partial_match", similar[1],
                                            fp, idom)
                        ELSE EngineDiscover("full_discovery", NoId, fp, idom)
                 ELSE EngineDiscover("full_discovery", NoId, fp, idom)
    /\ UNCHANGED <<manifests, today, route, procReq, chatVars, svcVars,
                   storeCall, inflight, disc, icall, issued, kcall, split>>

----------------------------------------------------------------------------
(* Initial states *)

EmptyStore == [ id \in ExperienceIds |-> NoRecord ]

Rec(fp, m, conf, status, uses, used) ==
    [ fingerprint |-> fp, domain |-> "developer.tools", manifest |-> m,
      confidence |-> conf, status |-> status,
      use_count |-> uses, last_used |-> used ]

\* scenario S3: one successful record above the default threshold
StoreS3 ==
    [ EmptyStore EXCEPT
        ![make_experience_id(1, FpGrep, "grep")] =
            Rec(FpGrep, "grep", 920, "success", 3, 1) ]

\* scenario S4 next to a failed high-confidence record, and a one-part
\* fingerprint whose only record is a failed invocation
StoreS4 ==
    [ EmptyStore EXCEPT
        ![make_experience_id(1, FpGrep, "grep")] =
            Rec(FpGrep, "grep", 840, "success", 3, 1),
        ![make_experience_id(1, FpGrep, "jq")] =
            Rec(FpGrep, "jq", 950, "failure", 2, 2),
        ![make_experience_id(1, FpBare, "wc")] =
            Rec(FpBare, "wc", 900, "failure", 1, 1) ]

\* six records under one fingerprint; the only eligible one ranks last
StoreFull ==
    [ EmptyStore EXCEPT
        ![make_experience_id(1, FpGrep, "grep")] =
            Rec(FpGrep, "grep", 950, "failure", 9, 1),
        ![make_experience_id(1, FpGrep, "jq")] =
            Rec(FpGrep, "jq", 700, "success", 8, 2),
        ![make_experience_id(1, FpGrep, "wc")] =
            Rec(FpGrep, "wc", 630, "failure", 7, 3),
        ![make_experience_id(2, FpGrep, "grep")] =
            Rec(FpGrep, "grep", 800, "success", 6, 4),
        ![make_experience_id(2, FpGrep, "jq")] =
            Rec(FpGrep, "jq", 840, "success", 5, 5),
        ![make_experience_id(2, FpGrep, "wc")] =
            Rec(FpGrep, "wc", 900, "success", 1, 6) ]

InitialStores == {EmptyStore, StoreS3, StoreS4, StoreFull}

InitExperience ==
    /\ experiences \in InitialStores
    /\ manifests \in {Domains, Domains \ {"grep"}}
    /\ now = 10
    /\ today = 1
    /\ route = [ path |-> None, cache_confidence |-> NoConfidence,
                 experience_id |-> NoId, invocation_status |-> None ]
    /\ procReq = [ fingerprint |-> NoFp, threshold |-> 0,
                   intent_domain |-> None ]

InitChat ==
    /\ chat = IdleChat
    /\ chatCount = 0

InitInvoker == inv = IdleInvoke

InitTrust ==
    /\ challenges = <<>>
    /\ attestations = <<>>
    /\ tnow = 0
    /\ vcall = [ c \in Callers |-> IdleCall ]
    /\ cap = IdleCapability
    /\ outbound = {}
    /\ published = [ domain \in TrustDomains |-> DefaultManifest ]

\* a claim set handed to KeyManager.sign: exp_as tells whether exp is given
\* as an integer or as a datetime, aud is None when the claim is absent
Claims(exp, exp_as, aud) ==
    [ iss |-> "test", sub |-> "example.com", iat |-> 0, exp |-> exp,
      exp_as |-> exp_as, aud |-> aud, oap_layer |-> 1,
      oap_manifest_hash |-> DefaultManifest,
      oap_verification_method |-> "dns" ]

\* exp claims in the past and in the future of the clock
ExpClaims ==
    { 0, Layer2ExpiryDays * DaySeconds, (Layer1ExpiryDays + 1) * DaySeconds }

ClaimSets ==
    { Claims(exp, exp_as, aud) :
        exp \in ExpClaims, exp_as \in {"int", "datetime"},
        aud \in {None, "agents"} }

IdleKeyCall ==
    [ called |-> FALSE, claims |-> Claims(0, "int", None),
      at |-> Instant(0, 0),
      result |-> [ error |-> None, claims |-> Claims(0, "int", None) ] ]

\* key_manager.verify(key_manager.sign(c))
SignVerify ==
    /\ \E c \in ClaimSets, usec \in Microseconds :
         kcall' = [ called |-> TRUE, claims |-> c, at |-> Instant(tnow, usec),
                    result |-> verify(sign(c, ServiceKey),
                                      public_key(ServiceKey),
                                      Instant(tnow, usec)) ]
    /\ UNCHANGED <<expVars, chatVars, svcVars, storeCall, inflight, disc, icall,
                   issued, toolVars>>

IdleStoreCall ==
    [ op |-> None, id |-> NoId, factor |-> 0, returned |-> NoConfidence,
      n |-> 0 ]

InitStoreCall == storeCall = IdleStoreCall

----------------------------------------------------------------------------
(* DiscoveryEngine.discover *)

\* the results of the vector search: manifest domains, nearest first
RECURSIVE Rankings(_)
Rankings(S) ==
    {<<>>} \cup UNION { { <<x>> \o t : t \in Rankings(S \ {x}) } : x \in S }

Hits == Rankings(Domains)

Unlisted == "unlisted.example"     \* a domain that is not among the hits

FallbackReason == "Selected by vector similarity (LLM reasoning unavailable)"

\* What self._ollama.generate may do.  kind "raise": the call raises;
\* "garbage": text without a JSON object; "array": JSON that is not an
\* object; "object": a JSON object with the keys `keys`, whose "pick" is a
\* string or null (None) and whose "reason" is a string.
Replies ==
    { [ kind |-> k, keys |-> {}, pick |-> None, reason |-> "" ] :
        k \in {"raise", "garbage", "array", "object"} }
    \cup
    { [ kind |-> "object", keys |-> ks, pick |-> p, reason |-> "because" ] :
        ks \in (SUBSET {"pick", "reason"}) \ {{}},
        p \in Domains \cup {Unlisted, "", None} }

NoJson == [ kind |-> "none", keys |-> {}, pick |-> None, reason |-> "" ]

\* _extract_json: the JSON value in the text, None when there is none
extract_json(reply) == IF reply.kind = "garbage" THEN NoJson ELSE reply

\* bool(parsed)
ParsedTruthy(parsed) ==
    \/ parsed.kind = "array"
    \/ parsed.kind = "object" /\ parsed.keys # {}

\* parsed.get("pick")
GetPick(parsed) == IF "pick" \in parsed.keys THEN parsed.pick ELSE None

\* parsed.get("reason", "")
GetReason(parsed) == IF "reason" \in parsed.keys THEN parsed.reason ELSE ""

\* the LLM's pick taken as the match without looking it up
PickedUnchecked(candidates, pick_domain) == pick_domain

\* the first candidate whose domain is the pick, None when there is none
PickedCandidate(candidates, pick_domain) ==
    IF \E i \in 1..Len(candidates) : candidates[i] = pick_domain
    THEN candidates[CHOOSE i \in 1..Len(candidates) :
                        /\ candidates[i] = pick_domain
                        /\ \A j \in 1..(i - 1) : candidates[j] # pick_domain]
    ELSE None

DiscoverResponse(match, reason, candidates, consulted) ==
    [ match |-> match, reason |-> reason, candidates |-> candidates,
      llm_consulted |-> consulted ]

\* no fallback: the response carries the candidates only
NoFallback(candidates) ==
    DiscoverResponse(None, None, candidates, TRUE)

\* fallback = candidates[0] with the fixed reason
Fallback(candidates) ==
    DiscoverResponse(candidates[1], FallbackReason, candidates, TRUE)

\* the response of discover for the hits of the search and the LLM's reply
discover(hits, reply) ==
    IF hits = <<>>
    THEN DiscoverResponse(None, None, <<>>, FALSE)
    ELSE IF reply.kind = "raise" THEN Fallback(hits)
    ELSE LET parsed == extract_json(reply) IN
         IF parsed.kind = "array" THEN Fallback(hits)   \* .get raises
         ELSE IF ParsedTruthy(parsed) /\ GetPick(parsed) \notin {None, ""}
         THEN LET match == PickedCandidate(hits, GetPick(parsed)) IN
              IF match # None
              THEN DiscoverResponse(match, GetReason(parsed), hits, TRUE)
              ELSE Fallback(hits)
         ELSE IF ParsedTruthy(parsed) /\ GetPick(parsed) = None
         THEN DiscoverResponse(None, None, hits, TRUE)
         ELSE Fallback(hits)

IdleDiscovery ==
    [ called |-> FALSE, hits |-> <<>>,
      reply |-> NoJson, response |-> DiscoverResponse(None, None, <<>>, FALSE) ]

InitDiscovery == disc = IdleDiscovery

\* one call of discover(task, top_k)
Discover ==
    /\ \E hits \in Hits, reply \in Replies :
         disc' = [ called |-> TRUE, hits |-> hits, reply |-> reply,
                   response |-> discover(hits, reply) ]
    /\ UNCHANGED <<expVars, chatVars, svcVars, storeCall, inflight, icall,
                   issued, kcall, toolVars>>

----------------------------------------------------------------------------

\* the requests the event loop serves at the same time
Requests == {"r1", "r2"}

IdleRequest ==
    [ pc |-> "idle", fingerprint |-> NoFp, intent_domain |-> None,
      checked_at |-> 0, id |-> NoId, record |-> NoRecord ]

InitInflight == inflight = [ r \in Requests |-> IdleRequest ]

Init ==
    /\ InitExperience /\ InitChat /\ InitInvoker /\ InitTrust
    /\ InitStoreCall /\ InitInflight /\ InitDiscovery
    /\ icall = IdleInitiate
    /\ issued = <<>>
    /\ kcall = IdleKeyCall
    /\ split = IdleSplit
    /\ ecall = IdleEngine
    /\ invocations = NoInvocations

\* a direct call ExperienceStore.degrade_confidence(id, factor)
DegradeConfidence ==
    /\ storeCall.n < MaxStoreCalls
    /\ \E id \in ExperienceIds, factor \in Factors :
         /\ experiences' = degrade_confidence(experiences, id, factor)
         /\ storeCall' = [ op |-> "degrade_confidence", id |-> id,
                           factor |-> factor,
                           returned |->
                               degrade_confidence_returns(experiences, id, factor),
                           n |-> storeCall.n + 1 ]
    /\ UNCHANGED <<manifests, now, today, route, procReq, chatVars, svcVars,
                   inflight, disc, icall, issued, kcall, toolVars>>

\* degrade_confidence(exp_id) as chat_proxy calls it: on the id of a record
\* the cache lookup returned, with the default factor
DegradeHit ==
    /\ storeCall.n < MaxStoreCalls
    /\ \E id \in Present(experiences) :
         /\ experiences' = degrade_confidence(experiences, id,
                                                 DegradeFactorTenths)
         /\ storeCall' = [ op |-> "degrade_confidence", id |-> id,
                           factor |-> DegradeFactorTenths,
                           returned |->
                               degrade_confidence_returns(experiences, id,
                                                          DegradeFactorTenths),
                           n |-> storeCall.n + 1 ]
    /\ UNCHANGED <<manifests, now, today, route, procReq, chatVars, svcVars,
                   inflight, disc, icall, issued, kcall, toolVars>>

\* touch(id) as path 1 and _check_experience_cache call it: on the id of a
\* record the cache lookup returned
Touch ==
    /\ storeCall.n < MaxStoreCalls
    /\ \E id \in Present(experiences) :
         /\ experiences' = touch(experiences, id, now)
         /\ storeCall' = [ op |-> "touch", id |-> id, factor |-> 0,
                           returned |-> NoConfidence, n |-> storeCall.n + 1 ]
    /\ now' = now + 1
    /\ UNCHANGED <<manifests, today, route, procReq, chatVars, svcVars,
                   inflight, disc, icall, issued, kcall, toolVars>>

\* the confidence of the records the callers of save build
SavedConfidences == { DiscoveryConfidence(score) : score \in Scores } \cup {ChatConfidence}

\* a call ExperienceStore.save(record) with a record as paths 2 and 3 and
\* _save_experience build it
Save ==
    /\ storeCall.n < MaxStoreCalls
    /\ \E fp \in Fingerprints, idom \in IntentDomains, m \in Domains,
          confidence \in SavedConfidences, status \in {"success", "failure"} :
         LET id == make_experience_id(today, fp, m) IN
         /\ experiences' = save(experiences, id,
                                NewRecord(fp, idom, m, confidence, status, now))
         /\ storeCall' = [ op |-> "save", id |-> id, factor |-> 0,
                           returned |-> NoConfidence, n |-> storeCall.n + 1 ]
    /\ now' = now + 1
    /\ UNCHANGED <<manifests, today, route, procReq, chatVars, svcVars,
                   inflight, disc, icall, issued, kcall, toolVars>>

\* process up to its first await after the cache lookup: the request is
\* fingerprinted and no record that find_by_fingerprint returns is eligible
ProcessMiss(r) ==
    /\ inflight[r].pc = "idle"
    /\ \E fp \in Fingerprints, idom \in IntentDomains :
       \E exact \in find_by_fingerprint(experiences, fp, FindLimit) :
         /\ FirstEligible(experiences, exact, DefaultThreshold) = 0
         /\ inflight' = [ inflight EXCEPT ![r] =
                [ @ EXCEPT !.pc = "missed", !.fingerprint = fp,
                           !.intent_domain = idom, !.checked_at = now ] ]
    /\ UNCHANGED <<expVars, chatVars, svcVars, storeCall, disc, icall, issued,
                   kcall, toolVars>>

\* the rest of process once discovery and the invocation have answered:
\* without a match nothing is written, with one the record is saved
ProcessSave(r) ==
    /\ inflight[r].pc = "missed"
    /\ \/ /\ inflight' = [ inflight EXCEPT ![r].pc = "no_match" ]
          /\ UNCHANGED <<experiences, now>>
       \/ \E m \in Domains, score \in Scores, status \in {"success", "failure"} :
            LET id == make_experience_id(today, inflight[r].fingerprint, m)
                record == NewRecord(inflight[r].fingerprint,
                                    inflight[r].intent_domain, m,
                                    DiscoveryConfidence(score), status, now)
            IN  /\ experiences' = save(experiences, id, record)
                /\ now' = now + 1
                /\ inflight' = [ inflight EXCEPT ![r] =
                       [ @ EXCEPT !.pc = "saved", !.id = id,
                                  !.record = record ] ]
    /\ UNCHANGED <<manifests, today, route, procReq, chatVars, svcVars,
                   storeCall, disc, icall, issued, kcall, toolVars>>

\* midnight UTC passes
DayAdvance ==
    /\ today < MaxDay
    /\ today' = today + 1
    /\ UNCHANGED <<experiences, manifests, now, route, procReq, chatVars, svcVars, libVars>>

NextExperience == ProcessRequest \/ DayAdvance

\* the store with every manifest present; process never reads the manifest
\* store
InitStore == Init /\ manifests = Domains

SpecExperience == InitStore /\ [][NextExperience]_vars

NextChat == ChatStart \/ ChatRound \/ ChatOllamaError

\* the proxy starts next to a cache that earlier requests have filled
InitProxy == Init /\ experiences \in {StoreS3, StoreFull}

SpecChat == InitProxy /\ [][NextChat]_vars

\* the bridge starts next to an empty cache or next to the cache of scenario S3
InitBridge ==
    Init /\ experiences \in {EmptyStore, StoreS3} /\ manifests = Domains

\* the server keeps serving a request it has accepted
SpecChatFair ==
    InitBridge /\ [][NextChat]_vars /\ WF_vars(ChatRound \/ ChatOllamaError)

\* the services start next to an empty cache
InitService == Init /\ experiences = EmptyStore /\ manifests = Domains

NextInvoker ==
    \/ InvokeManifest
    \/ InvokeHttpRequest
    \/ StdioCommunicate
    \/ StdioKill
    \/ StdioWait

\* the status requests are served one after the other
NextTrust ==
    \/ TrustTick
    \/ InitiateDomainAttestation
    \/ VerifyStart("c1")
    \/ VerifyChallenge("c1")
    \/ VerifyFinish("c1")

\* domain attestation (Layer 1)
SpecTrust == InitService /\ [][NextTrust]_vars

\* the clock keeps moving and the service keeps answering; nothing in the
\* service calls TrustStore.cleanup_expired_challenges
SpecTrustFair == SpecTrust /\ WF_vars(NextTrust)

\* the store holds scenario S3 or scenario S4
InitWriters == InitStore /\ experiences \in {StoreS3, StoreS4}

\* two verify requests served at the same time, the clock standing still
NextVerifiers ==
    \/ InitiateDomainAttestation
    \/ \E c \in Callers : VerifyStart(c)
    \/ \E c \in Callers : VerifyChallenge(c)
    \/ \E c \in Callers : VerifyFinish(c)

SpecVerifiers == InitService /\ [][NextVerifiers]_vars

NextEngine == EngineCall

\* requests to POST /v1/experience/invoke, one after the other
InitEngine == InitStore /\ experiences = EmptyStore

SpecEngine == InitEngine /\ [][NextEngine]_vars

NextWriters == DegradeHit \/ Touch \/ Save

\* the store calls of the engine and of the chat proxy, in any order
SpecWriters == InitWriters /\ [][NextWriters]_vars

NextChunks == SplitCall \/ SplitStep

\* _split_chunks is synchronous code: once called it runs to its return
SpecChunks == InitService /\ [][NextChunks]_vars /\ WF_vars(SplitStep)

NextCapability == AttestCapability \/ Publish

\* capability attestation (Layer 2)
SpecCapability == InitService /\ [][NextCapability]_vars

\* the instant an earlier run of the service attested example.com
PriorInstant == Instant(0, 500000)

\* the store an earlier run left: the verified challenge of example.com
PriorChallenges ==
    mark_challenge_verified(
        create_challenge(<<>>, "example.com", "dns", PriorInstant.sec), 1)

\* the store an earlier run left: the Layer 1 attestation of example.com
PriorAttestations ==
    sign_attestation(<<>>, "example.com", 1, DefaultManifest, "dns", 1,
                     Layer1ExpiryDays, PriorInstant)

PriorIssued ==
    << Issued("example.com", 1, Layer1ExpiryDays, PriorInstant) >>

\* the service starts on an empty store or on the store of an earlier run
InitAttested ==
    /\ InitExperience /\ experiences = EmptyStore /\ manifests = Domains
    /\ InitChat /\ InitInvoker
    /\ InitStoreCall /\ InitInflight /\ InitDiscovery
    /\ icall = IdleInitiate
    /\ kcall = IdleKeyCall
    /\ split = IdleSplit
    /\ ecall = IdleEngine
    /\ invocations = NoInvocations
    /\ tnow = 0
    /\ vcall = [ c \in Callers |-> IdleCall ]
    /\ cap = IdleCapability
    /\ outbound = {}
    /\ published = [ domain \in TrustDomains |-> DefaultManifest ]
    /\ \/ challenges = <<>> /\ attestations = <<>> /\ issued = <<>>
       \/ /\ challenges = PriorChallenges
          /\ attestations = PriorAttestations
          /\ issued = PriorIssued

NextAttestations == AttestCapability \/ TimeLeap

NextKeys == AttestCapability \/ TimeLeap \/ SignVerify

\* a trust store with the attestations of an earlier run
InitSigned == InitAttested /\ attestations = PriorAttestations

\* the key manager next to the attestations it signed
SpecKeys == InitSigned /\ [][NextKeys]_vars

\* attestations of both layers, queried as the months pass
SpecAttestations == InitAttested /\ [][NextAttestations]_vars

SpecInvoker == InitService /\ [][NextInvoker]_vars

\* every awaited request answers or times out, and the loop goes on
SpecInvokerFair ==
    SpecInvoker /\ WF_vars(InvokeHttpRequest)
                /\ WF_vars(StdioCommunicate \/ StdioKill \/ StdioWait)

NextStore == DegradeConfidence

\* the store's methods called directly
SpecStore == InitStore /\ [][NextStore]_vars

NextConcurrent ==
    \/ \E r \in Requests : ProcessMiss(r)
    \/ \E r \in Requests : ProcessSave(r)
    \/ DayAdvance

\* two requests of ExperienceEngine.process interleaved at their awaits
SpecConcurrent == InitStore /\ [][NextConcurrent]_vars

NextDiscovery == Discover

\* calls of DiscoveryEngine.discover
SpecDiscovery == InitService /\ [][NextDiscovery]_vars

----------------------------------------------------------------------------
(* Properties *)

\* C1: ExperienceEngine.process answers route.path = "cache_hit" only for a
\* stored record that has the request's fingerprint, outcome status "success"
\* and confidence >= the request's threshold; a failed record or one below the
\* threshold is never the hit.
C1_CacheHitOnlyIfEligible ==
    route.path = "cache_hit" =>
        /\ route.experience_id \in Present(experiences)
        /\ experiences[route.experience_id].fingerprint = procReq.fingerprint
        /\ experiences[route.experience_id].status = "success"
        /\ experiences[route.experience_id].confidence >= procReq.threshold
        /\ route.cache_confidence >= procReq.threshold

\* a cache hit next to a failed record of the same fingerprint whose
\* confidence would have passed the threshold
C1_Witness ==
    /\ route.path = "cache_hit"
    /\ \E id \in Present(experiences) :
         /\ experiences[id].fingerprint = procReq.fingerprint
         /\ experiences[id].status = "failure"
         /\ experiences[id].confidence >= procReq.threshold

\* the chat request has returned a response (not an HTTP error)
ChatAnswered == chat.pc = "done" /\ chat.response.status = "200"

\* C2: every chat request served from a cache hit in which a tool result
\* starts with "Error" calls degrade_confidence on the hit record, retries
\* once with full discovery and labels the final response "degraded".
C2_ErrorAfterHitDegrades ==
    (ChatAnswered /\ chat.served_from_cache /\ chat.hit_tool_error) =>
        /\ chat.degraded = <<chat.exp_id>>
        /\ chat.attempts = 2
        /\ chat.response.oap_experience_cache = "degraded"

\* the state right after the cache check of a request that got a fingerprint
ChatRouted ==
    /\ chat.pc = "round"
    /\ chat.attempts = 1
    /\ chat.llm_calls = 0
    /\ chat.exp_fingerprint # NoFp

\* C3 as stated: with a fingerprint obtained, the request routes via cache_hit
\* iff the store holds a record of that fingerprint with status "success" and
\* confidence >= the configured threshold.
C3_HitIffRecordExists ==
    ChatRouted =>
        ( chat.exp_cache_hit <=>
            \E id \in Present(experiences) :
                /\ experiences[id].fingerprint = chat.exp_fingerprint
                /\ experiences[id].status = "success"
                /\ experiences[id].confidence >= DefaultThreshold )

\* C3 amended: the request routes via cache_hit iff one of the (at most 5)
\* records find_by_fingerprint returns has status "success", confidence >= the
\* threshold and a manifest that is still in the manifest store.
C3_HitIffReturnedRecordUsable ==
    ChatRouted =>
        ( chat.exp_cache_hit <=>
            \E matches \in find_by_fingerprint(experiences, chat.exp_fingerprint, FindLimit) :
            \E i \in 1..Len(matches) :
                /\ experiences[matches[i]].status = "success"
                /\ experiences[matches[i]].confidence >= DefaultThreshold
                /\ experiences[matches[i]].manifest \in manifests )

\* a miss although a successful, confident record with a present manifest is
\* stored: it ranks behind the five records the lookup returns
C3_Witness ==
    /\ ChatRouted
    /\ ~chat.exp_cache_hit
    /\ \E id \in Present(experiences) :
         /\ experiences[id].fingerprint = chat.exp_fingerprint
         /\ experiences[id].status = "success"
         /\ experiences[id].confidence >= DefaultThreshold
         /\ experiences[id].manifest \in manifests

\* C10: a chat request runs at most 2 attempts, each of at most
\* min(oap_max_rounds, config.max_rounds) LLM rounds, a second attempt only
\* after a cache-hit attempt in which a tool errored, and then it ends.
C10_BoundedAttemptsAndRounds ==
    /\ [](/\ chat.attempts <= MaxAttempts
          /\ chat.llm_calls <= Min(chat.oap_max_rounds, CfgMaxRounds)
          /\ chat.attempts = 2 => (chat.served_from_cache /\ chat.hit_tool_error))
    /\ (chat.pc = "round") ~> (chat.pc = "done")

\* a request in its second attempt that has used all the rounds of the
\* configuration although it asked for more
C10_Witness ==
    /\ chat.attempts = 2
    /\ chat.llm_calls = CfgMaxRounds
    /\ chat.oap_max_rounds > CfgMaxRounds
    /\ chat.pc = "done"

\* the path the operating system runs for a command: "." and ".." resolved
RECURSIVE Normalize(_, _)
Normalize(parts, acc) ==
    IF parts = <<>> THEN acc
    ELSE IF Head(parts) = "." THEN Normalize(Tail(parts), acc)
    ELSE IF Head(parts) = ".."
    THEN Normalize(Tail(parts),
                   IF acc = <<>> THEN acc ELSE SubSeq(acc, 1, Len(acc) - 1))
    ELSE Normalize(Tail(parts), Append(acc, Head(parts)))

\* the file lies inside one of the allow-listed directories
InsideAllowedDir(path) ==
    /\ path.abs
    /\ \E p \in ALLOWED_STDIO_PREFIXES :
         /\ IsPrefix(p, Normalize(path.parts, <<>>))
         /\ Len(Normalize(path.parts, <<>>)) > Len(p)

\* the URL resolves, and to no address the Invoker blocks
ResolvesUnblocked(url) ==
    /\ url \notin NoHostname
    /\ getaddrinfo(url) # {}
    /\ \A class \in getaddrinfo(url) :
         class \notin {"private", "loopback", "link_local"}

\* C4: every HTTP request of the Invoker, the first one and each redirect
\* hop, goes to a URL that passed the SSRF validation right before the
\* request; when the initial URL or a redirect target resolves to a blocked
\* address the invocation ends in failure and no request was sent to that URL.
C4_EveryRequestValidated ==
    /\ \A k \in 1..Len(inv.sent) :
         inv.sent[k].guarded /\ ResolvesUnblocked(inv.sent[k].url)
    /\ \A url \in inv.seen :
         (inv.pc = "done" /\ ~ResolvesUnblocked(url))
            => /\ inv.status = "failure"
               /\ \A k \in 1..Len(inv.sent) : inv.sent[k].url # url

\* C4: a redirect chain that ended at a target resolving to a blocked address
C4_Witness ==
    /\ inv.pc = "done"
    /\ Len(inv.sent) >= 2
    /\ inv.sent[1].url # inv.sent[2].url
    /\ inv.url = "http://169.254.169.254/latest"
    /\ inv.status = "failure"

\* C9: a stdio manifest runs only when its command resolves to an absolute
\* path inside an allow-listed directory; otherwise the result is a failure
\* with a Blocked error and no process is started.
C9_StdioOnlyInsideAllowList ==
    /\ inv.spawned # NoPath => InsideAllowedDir(inv.spawned)
    /\ (inv.pc = "done" /\ Upper(inv.method) = "STDIO"
          /\ (inv.resolved = NoPath \/ ~InsideAllowedDir(inv.resolved)))
         => /\ inv.status = "failure"
            /\ inv.error = "Blocked"
            /\ inv.spawned = NoPath

\* the URL is one the URLGuard of the trust service accepts
GuardAccepts(url) ==
    /\ url.scheme = "https"
    /\ url.host # ""
    /\ host_addrs(url.host) # {}
    /\ host_addrs(url.host) \cap
         {"private", "loopback", "link_local", "reserved", "multicast"} = {}

\* C5: every HTTP request the trust service sends (manifest fetch, HTTP
\* challenge verification, probes of the invoke and health URLs) goes to a
\* URL that passed URLGuard validation, the target of each redirect hop
\* included.
C5_AllOutboundGuarded ==
    \A request \in outbound :
        request.validated /\ GuardAccepts(request.url)

\* the challenges of the domain that are pending and not expired at time t
Eligible(rows, domain, t) ==
    { k \in 1..Len(rows) :
        /\ rows[k].domain = domain
        /\ rows[k].status = "pending"
        /\ rows[k].expires_at > t }

\* a verify call leaves its entry
Started(c) == vcall[c].pc \in {"idle", "done"} /\ vcall'[c] # vcall[c]

SelectedMarked(c) ==
    \E k \in 1..Len(challenges) :
        /\ challenges[k].token = vcall[c].token
        /\ challenges[k].status = "verified"

\* the call stored and returns a Layer-1 attestation of its domain
ReturnsAttestation(c) ==
    /\ vcall[c].attestation \in 1..Len(attestations)
    /\ attestations[vcall[c].attestation].layer = 1
    /\ attestations[vcall[c].attestation].domain = vcall[c].domain
    /\ attestations[vcall[c].attestation].challenge = vcall[c].token

\* C7: whenever the verifier finds the eligible challenge satisfied, the same
\* call marks the challenge verified, persists a Layer-1 attestation of the
\* domain and returns challenge_verified = true with that attestation.
C7_SatisfiedChallengeAttested ==
    \A c \in Callers :
        (vcall[c].pc = "done" /\ vcall[c].satisfied) =>
            /\ SelectedMarked(c)
            /\ vcall[c].challenge_verified
            /\ ReturnsAttestation(c)

\* C7, amended: the challenge is marked verified and challenge_verified = true
\* is returned whenever the verifier is satisfied; the attestation is
\* persisted and returned when the manifest re-fetch succeeds, and when it
\* fails the call returns an error without any attestation.
C7_SatisfiedChallengeAttestedWhenFetched ==
    \A c \in Callers :
        /\ vcall[c].satisfied => SelectedMarked(c)
        /\ (vcall[c].pc = "done" /\ vcall[c].satisfied) =>
              /\ vcall[c].challenge_verified
              /\ IF vcall[c].fetched
                 THEN ReturnsAttestation(c) /\ vcall[c].error = None
                 ELSE /\ vcall[c].attestation = 0
                      /\ vcall[c].error = "failed to fetch manifest"
        /\ (vcall[c].pc = "done" /\ ~vcall[c].satisfied) =>
              ~vcall[c].challenge_verified /\ vcall[c].attestation = 0

\* C7: a call that found the challenge satisfied and returned the attestation
C7_Witness ==
    \E c \in Callers :
        /\ vcall[c].pc = "done"
        /\ vcall[c].satisfied
        /\ vcall[c].fetched
        /\ ReturnsAttestation(c)
        /\ SelectedMarked(c)

\* the manifest is one attest_capability must refuse
Untestable(manifest) ==
    \/ ~GuardAccepts(manifest.url)
    \/ manifest.method \in {"stdio", "STDIO"}
    \/ manifest.auth \notin {None, "none"}

\* C8: attest_capability stores and returns no Layer-2 attestation for a
\* manifest whose invoke URL fails URLGuard, whose method is stdio or whose
\* auth is not none, and sends no probe to the invoke URL of such a manifest.
C8_NoLayer2ForUntestable ==
    /\ \A a \in 1..Len(attestations) :
         attestations[a].layer = 2 => ~Untestable(attestations[a].manifest)
    /\ (cap.fetched /\ Untestable(cap.manifest)) =>
         /\ cap.attestation = 0
         /\ \A request \in outbound :
              request.by \notin {"liveness", "example"}

\* C11: the chat proxy saves an experience record only at the end of an
\* attempt that was not a cache hit, ran a tool and saw no tool error; a
\* request in which any tool execution returned an error saves nothing.
C11_NoSaveAfterAnyToolError ==
    /\ chat.saved # NoId =>
         /\ chat.pc = "done"
         /\ ~chat.exp_cache_hit
         /\ chat.tools_executed
         /\ ~chat.tools_had_errors
    /\ (chat.hit_tool_error \/ chat.tools_had_errors) => chat.saved = NoId

\* C11, amended: a record is saved only at the end of an attempt that was not
\* a cache hit, ran a tool and saw no tool error in any of its rounds; an
\* attempt with a tool error saves nothing, while the error-free retry that
\* follows a failed cache-hit attempt does save.
C11_SaveOnlyAfterErrorFreeAttempt ==
    /\ chat.saved # NoId =>
         /\ chat.pc = "done"
         /\ chat.response.status = "200"
         /\ ~chat.exp_cache_hit
         /\ chat.tools_executed
         /\ ~chat.tools_had_errors
         /\ chat.exp_fingerprint # NoFp
         /\ experiences[chat.saved] # NoRecord
         /\ experiences[chat.saved].manifest \in chat.registry
         /\ experiences[chat.saved].fingerprint = chat.exp_fingerprint
    /\ chat.tools_had_errors => chat.saved = NoId
    /\ (chat.hit_tool_error /\ chat.saved # NoId) =>
         chat.attempts = 2 /\ chat.response.oap_experience_cache = "degraded"

\* C11: a request that saved a record at the end of its first attempt
C11_Witness ==
    /\ chat.pc = "done"
    /\ chat.saved # NoId
    /\ chat.attempts = 1
    /\ chat.tools_called # {}

\* C12: when a chat request finishes labelled "degraded", the stored
\* confidence of the record that produced the cache hit is its confidence at
\* the start of the request multiplied by 0.7.
C12_DegradedRecordKeepsLoweredConfidence ==
    (chat.pc = "done" /\ chat.response.oap_experience_cache = "degraded") =>
        /\ chat.exp_id # NoId
        /\ experiences[chat.exp_id] # NoRecord
        /\ experiences[chat.exp_id].confidence =
              (chat.hit_confidence * 7) \div 10

\* C13: when the invocation replayed on a path-1 cache hit returns status
\* failure, the hit record's confidence is multiplied by 0.7.
C13_FailedReplayDegrades ==
    (route.path = "cache_hit" /\ route.invocation_status = "failure") =>
        experiences[route.experience_id].confidence =
            (route.cache_confidence * DegradeFactorTenths) \div 10

\* C14: degrade_confidence(id, factor) on an existing record sets its
\* confidence to the old confidence times factor and its outcome status to
\* failure, returns the new confidence and changes no other record; on a
\* missing id it returns null and changes nothing; one degrade with factor
\* 0.7 takes a record at 0.90 to 0.63, no longer eligible at threshold 0.85.
C14_DegradeConfidence ==
    [][ (storeCall'.n # storeCall.n /\ storeCall'.op = "degrade_confidence") =>
          LET id == storeCall'.id
              factor == storeCall'.factor
          IN  IF experiences[id] # NoRecord
              THEN /\ experiences'[id].confidence =
                          (experiences[id].confidence * factor) \div 10
                   /\ experiences'[id].status = "failure"
                   /\ storeCall'.returned = experiences'[id].confidence
                   /\ \A other \in ExperienceIds \ {id} :
                          experiences'[other] = experiences[other]
                   /\ (factor = 7 /\ experiences[id].confidence = 900) =>
                          /\ experiences'[id].confidence = 630
                          /\ ~ProcessEligible(experiences'[id], DefaultThreshold)
                          /\ ~ChatEligible(experiences'[id], DefaultThreshold)
              ELSE /\ storeCall'.returned = NoConfidence
                   /\ experiences' = experiences ]_vars

C14_Witness ==
    /\ storeCall.op = "degrade_confidence"
    /\ storeCall.factor = 7
    /\ storeCall.returned = 630
    /\ experiences[storeCall.id] # NoRecord
    /\ experiences[storeCall.id].status = "failure"

\* C15: on every cache hit of ExperienceEngine.process the response carries
\* route.cache_confidence equal to the hit record's stored confidence, and
\* that record's use_count advances by exactly 1 for the request.
C15_HitReportsConfidenceAndCountsOnce ==
    [][ (now' # now /\ route'.path = "cache_hit") =>
          LET id == route'.experience_id
          IN  /\ experiences[id] # NoRecord
              /\ route'.cache_confidence = experiences[id].confidence
              /\ experiences'[id].confidence = experiences[id].confidence
              /\ experiences'[id].use_count = experiences[id].use_count + 1
              /\ \A other \in ExperienceIds \ {id} :
                     experiences'[other] = experiences[other] ]_vars

C15_Witness ==
    /\ route.path = "cache_hit"
    /\ route.cache_confidence = 920
    /\ experiences[route.experience_id].use_count = 4

\* some record under the fingerprint passes the path-1 test
EligibleExists(store, fp, threshold) ==
    \E id \in Present(store) :
        store[id].fingerprint = fp /\ ProcessEligible(store[id], threshold)

\* find_similar on the request's domain and two-part prefix returns rows
SimilarExists(store, req) ==
    \E similar \in find_similar(store, req.intent_domain,
                                Prefix(req.fingerprint), FindLimit) :
        similar # <<>>

\* C16 as stated: process takes exactly one of three routes, in this order:
\* fingerprinting failed -> full_discovery; else an eligible record under the
\* exact fingerprint exists -> cache_hit; else find_similar(intent_domain,
\* first two parts of the fingerprint) non-empty -> partial_match; otherwise
\* full_discovery.
C16_RouteOrder ==
    [][ (today' = today /\ procReq'.fingerprint # NoFp) =>
          route'.path =
            IF procReq'.fingerprint = FpUnknown THEN "full_discovery"
            ELSE IF EligibleExists(experiences, procReq'.fingerprint,
                                   procReq'.threshold)
                 THEN "cache_hit"
            ELSE IF SimilarExists(experiences, procReq')
                 THEN "partial_match"
            ELSE "full_discovery" ]_vars

\* C16 amended: the cache_hit route is decided on the (at most 5) rows that
\* find_by_fingerprint returns, and find_similar is consulted only for a
\* fingerprint of at least two dotted parts.
C16_RouteOrderOnReturnedRows ==
    [][ (today' = today /\ procReq'.fingerprint # NoFp) =>
          LET fp == procReq'.fingerprint
              results == find_by_fingerprint(experiences, fp, FindLimit)
              usable(exact) ==
                  FirstEligible(experiences, exact, procReq'.threshold) # 0
          IN  IF fp = FpUnknown
              THEN route'.path = "full_discovery"
              ELSE IF route'.path = "cache_hit"
              THEN \E exact \in results : usable(exact)
              ELSE /\ \E exact \in results : ~usable(exact)
                   /\ route'.path \in {"partial_match", "full_discovery"}
                   /\ route'.path = "partial_match" <=>
                        (Len(fp) >= 2 /\ SimilarExists(experiences, procReq'))
        ]_vars

\* a one-part fingerprint went to full discovery next to a stored record
\* that its prefix matches
C16_Witness ==
    /\ route.path = "full_discovery"
    /\ procReq.fingerprint = FpBare
    /\ \E id \in Present(experiences) :
         /\ experiences[id].fingerprint = FpBare
         /\ id # route.experience_id

\* records of the store minted on `day` for the pair (fp, m)
RecordsFor(store, day, fp, m) ==
    { id \in Present(store) :
        /\ id[1] = day
        /\ store[id].fingerprint = fp
        /\ store[id].manifest = m }

\* C17: for any interleaving of two concurrent requests with the same
\* fingerprint that both observe a cache miss and both save a record for the
\* same manifest on the same UTC day, the store ends with exactly one record
\* under the shared id, holding the values of the last writer; saving again
\* for the same (fingerprint, manifest, day) never adds a second record.
C17_LastWriterWins ==
    /\ [] (\A a, b \in Requests :
            ( /\ a # b
              /\ inflight[a].pc = "saved" /\ inflight[b].pc = "saved"
              /\ inflight[a].id = inflight[b].id
              /\ inflight[a].record.last_used < inflight[b].record.last_used )
            => /\ experiences[inflight[b].id] = inflight[b].record
               /\ RecordsFor(experiences, inflight[b].id[1],
                             inflight[b].fingerprint,
                             inflight[b].record.manifest) = {inflight[b].id})
    /\ [][ \A r \in Requests :
             (inflight[r].pc = "missed" /\ inflight'[r].pc = "saved") =>
                LET id == inflight'[r].id
                IN  /\ id = make_experience_id(today, inflight[r].fingerprint,
                                               inflight'[r].record.manifest)
                    /\ Present(experiences') = Present(experiences) \cup {id}
                    /\ experiences'[id] = inflight'[r].record
                    /\ \A other \in ExperienceIds \ {id} :
                           experiences'[other] = experiences[other] ]_vars

\* both requests missed before either saved, then wrote different values
\* under one id
C17_Witness ==
    /\ inflight["r1"].pc = "saved" /\ inflight["r2"].pc = "saved"
    /\ inflight["r1"].id = inflight["r2"].id
    /\ inflight["r1"].record.status # inflight["r2"].record.status
    /\ inflight["r2"].checked_at <= inflight["r1"].record.last_used
    /\ inflight["r1"].record.last_used < inflight["r2"].record.last_used

\* C18: discover never returns a match outside the candidate list it
\* presented to the LLM: for every LLM reply, match is absent or one of the
\* returned candidates.
C18_MatchAmongCandidates ==
    disc.called =>
        /\ disc.response.candidates = disc.hits
        /\ \/ disc.response.match = None
           \/ \E i \in 1..Len(disc.response.candidates) :
                 disc.response.candidates[i] = disc.response.match

\* the LLM picked a domain that was not presented
C18_Witness ==
    /\ disc.called
    /\ disc.reply.kind = "object"
    /\ "pick" \in disc.reply.keys
    /\ disc.reply.pick = Unlisted
    /\ Len(disc.hits) >= 2
    /\ disc.response.match = disc.hits[1]

\* C19: with at least one vector hit, if the LLM call raises or its reply
\* cannot be parsed the match is the top vector hit with the reason "Selected
\* by vector similarity (LLM reasoning unavailable)"; if the LLM replies
\* pick = null the match is None and the candidates are still returned; with
\* no vector hit the match is None and the LLM is not consulted.
C19_FallbackLadder ==
    disc.called =>
        IF disc.hits = <<>>
        THEN /\ disc.response.match = None
             /\ ~disc.response.llm_consulted
        ELSE /\ disc.response.llm_consulted
             /\ disc.reply.kind \in {"raise", "garbage"} =>
                   /\ disc.response.match = disc.hits[1]
                   /\ disc.response.reason = FallbackReason
                   /\ disc.response.candidates = disc.hits
             /\ ( /\ disc.reply.kind = "object"
                  /\ "pick" \in disc.reply.keys
                  /\ disc.reply.pick = None ) =>
                   /\ disc.response.match = None
                   /\ disc.response.candidates = disc.hits

\* an unparseable reply next to several hits
C19_Witness ==
    /\ disc.called
    /\ Len(disc.hits) >= 2
    /\ disc.reply.kind = "garbage"
    /\ disc.response.match = disc.hits[1]
    /\ disc.response.reason = FallbackReason

\* what holds of the redirect loop in every state
RedirectLoopBounded ==
    /\ inv.requests <= MaxRedirects + 1
    /\ inv.redirects <= inv.requests
    /\ \A k \in 1..Len(inv.sent) : inv.sent[k].headers = inv.headers
    /\ inv.redirects = MaxRedirects + 1 =>
          /\ inv.pc = "done"
          /\ inv.status = "failure"

\* C20: the manual redirect loop follows at most 5 redirect hops and then
\* returns, sending the same headers (injected auth included) on every hop;
\* an endless chain of 3xx responses ends in a failure result instead of
\* looping.
C20_RedirectLoopEnds ==
    /\ []RedirectLoopBounded
    /\ (inv.pc = "http") ~> (inv.pc = "done")

\* six redirects in a row across hosts, the credential sent each time
C20_Witness ==
    /\ inv.pc = "done"
    /\ inv.status = "failure"
    /\ inv.redirects = MaxRedirects + 1
    /\ Len(inv.sent) = MaxRedirects + 1
    /\ inv.headers = {"Authorization"}
    /\ inv.sent[MaxRedirects + 1].url # inv.first_url
    /\ inv.sent[MaxRedirects + 1].headers = {"Authorization"}

\* C21 as stated: for an HTTP invocation whose final response has status
\* code c, InvocationResult.status is success iff 200 <= c < 400.
C21_SuccessIffBelow400 ==
    (inv.pc = "done" /\ inv.http_code # NoCode) =>
        (inv.status = "success" <=>
            (200 <= inv.http_code /\ inv.http_code < 400))

\* C21 amended: InvocationResult.status is success iff 200 <= c <= 299; a
\* final 3xx response is a failure with error "HTTP <c>".
C21_SuccessIff2xx ==
    (inv.pc = "done" /\ inv.http_code # NoCode) =>
        /\ inv.status \in {"success", "failure"}
        /\ inv.status = "success" <=>
              (200 <= inv.http_code /\ inv.http_code <= 299)
        /\ inv.status = "success" => inv.error = None
        /\ inv.status = "failure" => inv.error = HttpError(inv.http_code)

\* a final 304 without Location
C21_Witness ==
    /\ inv.pc = "done"
    /\ inv.http_code = 304
    /\ inv.redirects = 0
    /\ inv.status = "failure"

\* C22: a stdio subprocess that has not exited within stdio_timeout is
\* killed and reaped before the failure result with the stdio timeout error
\* is returned; no subprocess started by an invocation is still running when
\* the invocation returns.
C22_NoSubprocessOutlivesInvocation ==
    inv.pc = "done" =>
        /\ inv.error = "stdio timeout" => inv.proc = "reaped"
        /\ inv.proc \in {"none", "reaped"}

\* C23: within one attempt of a chat request, the message list sent to the
\* LLM in round N+1 is the list sent in round N extended, in order, by the
\* assistant message of round N and one role=tool message per tool call of
\* round N; nothing sent in round N is dropped or reordered.
C23_MessagesExtendedEachRound ==
    /\ Len(chat.sent) >= 1 => chat.sent[1] = OriginalMessages
    /\ \A N \in 1..(Len(chat.sent) - 1) :
         /\ N <= Len(chat.round_calls)
         /\ chat.sent[N + 1] =
               chat.sent[N] \o <<AssistantMessage(N)>>
                            \o ToolMessages(N, chat.round_calls[N])

\* the third request of the retry, after a round with two tool calls
C23_Witness ==
    /\ chat.attempts = 2
    /\ Len(chat.sent) = 3
    /\ chat.round_calls[1] = 2
    /\ Len(chat.sent[3]) > Len(chat.sent[2])

\* C24: every experience record saved by the chat proxy has manifest_matched
\* equal to the domain of a registry entry whose tool was called during the
\* final attempt, never an entry that was not called, and confidence 0.9.
C24_SavedRecordNamesCalledTool ==
    chat.saved # NoId =>
        /\ chat.saved \in Present(experiences)
        /\ experiences[chat.saved].manifest \in chat.registry
        /\ experiences[chat.saved].manifest \in chat.tools_called
        /\ experiences[chat.saved].confidence = ChatConfidence

\* a save after the retry, from a registry with an entry that was not called
C24_Witness ==
    /\ chat.saved # NoId
    /\ chat.attempts = 2
    /\ chat.registry \ chat.tools_called # {}

\* C25: every experience record saved by path 2 or path 3 has
\* discovery.confidence within [0,1], for every cosine distance the vector
\* search can report for the matched manifest.
C25_SavedConfidenceWithinUnitInterval ==
    (/\ route.path \in {"partial_match", "full_discovery"}
     /\ route.invocation_status # None
     /\ route.experience_id \in Present(experiences)) =>
        /\ experiences[route.experience_id].confidence >= 0
        /\ experiences[route.experience_id].confidence <= 1000

\* C26: if the Layer 0 check of the domain fails, initiate_domain_attestation
\* raises an invalid-request error (ValueError, HTTP 400) and persists no
\* challenge; a challenge is persisted only after Layer 0 has passed.
C26_Layer0FailureIsInvalidRequest ==
    /\ (icall.layer0 # None /\ icall.layer0 # "passed") =>
           /\ icall.error = "ValueError"
           /\ icall.token = NoToken
    /\ icall.token # NoToken =>
           /\ icall.layer0 = "passed"
           /\ icall.token \in 1..Len(challenges)

\* C27: at any time t, get_attestations(domain) returns exactly the
\* attestations ever issued for that domain whose expires_at is later than t:
\* attestations are only inserted, never updated or deleted, and they leave
\* the query results only by expiring.
C27_QueryReturnsUnexpiredIssued ==
    /\ Len(attestations) = Len(issued)
    /\ \A domain \in TrustDomains, usec \in QueryMicroseconds :
         LET t == Instant(tnow, usec)
             rows == get_attestations(attestations, domain, t)
         IN  /\ rows = { k \in 1..Len(issued) :
                           /\ issued[k].domain = domain
                           /\ Later(issued[k].expires_at, t) }
             /\ \A k \in rows :
                  /\ attestations[k].domain = issued[k].domain
                  /\ attestations[k].layer = issued[k].layer
                  /\ fromisoformat(attestations[k].issued_at) =
                        issued[k].issued_at
                  /\ fromisoformat(attestations[k].expires_at) =
                        issued[k].expires_at

\* two attestations of one domain and layer, the older one expired within
\* the running second, the newer one returned alone
C27_Witness ==
    \E domain \in TrustDomains, j, k \in 1..Len(issued) :
        /\ j < k
        /\ issued[j].domain = domain /\ issued[k].domain = domain
        /\ issued[j].layer = issued[k].layer
        /\ get_attestations(attestations, domain, Instant(tnow, 0)) = {j, k}
        /\ get_attestations(attestations, domain, Instant(tnow, 500000)) = {k}

\* the configured expiry of a layer, in seconds
ConfiguredExpiry(layer) ==
    (IF layer = 1 THEN Layer1ExpiryDays ELSE Layer2ExpiryDays) * DaySeconds

\* expires_at is later than issued_at by the configured expiry of the layer
ExpiresAfterConfiguredExpiry(row) ==
    LET issued_at == fromisoformat(row.issued_at)
        expires_at == fromisoformat(row.expires_at)
    IN  /\ Later(expires_at, issued_at)
        /\ expires_at.sec - issued_at.sec = ConfiguredExpiry(row.layer)
        /\ expires_at.usec = issued_at.usec

\* C28: every stored attestation has expires_at later than issued_at, with
\* expires_at - issued_at equal to the configured expiry of its layer (90
\* days for Layer 1, 7 days for Layer 2), and the exp and iat claims inside
\* its JWS equal those two instants.
C28_ExpiryAndClaimsEqualInstants ==
    \A k \in 1..Len(attestations) :
        /\ ExpiresAfterConfiguredExpiry(attestations[k])
        /\ Instant(attestations[k].jws.payload.iat, 0) =
              fromisoformat(attestations[k].issued_at)
        /\ Instant(attestations[k].jws.payload.exp, 0) =
              fromisoformat(attestations[k].expires_at)

\* C28 amended: expires_at - issued_at is the configured expiry of the
\* layer, and the iat and exp claims are issued_at and expires_at cut to
\* whole seconds, so that exp - iat is the same expiry.
C28_ExpiryAndClaimsInWholeSeconds ==
    \A k \in 1..Len(attestations) :
        /\ ExpiresAfterConfiguredExpiry(attestations[k])
        /\ attestations[k].jws.payload.iat =
              fromisoformat(attestations[k].issued_at).sec
        /\ attestations[k].jws.payload.exp =
              fromisoformat(attestations[k].expires_at).sec
        /\ attestations[k].jws.payload.exp - attestations[k].jws.payload.iat
              = ConfiguredExpiry(attestations[k].layer)

\* a Layer 1 and a Layer 2 attestation in the store, the second issued a
\* week after the first
C28_Witness ==
    \E j, k \in 1..Len(attestations) :
        /\ attestations[j].layer = 1
        /\ attestations[k].layer = 2
        /\ fromisoformat(attestations[k].issued_at).sec >
              fromisoformat(attestations[j].issued_at).sec
        /\ fromisoformat(attestations[k].issued_at).usec # 0

\* the challenge with this token is in the store
Stored(token) ==
    \E k \in 1..Len(challenges) : challenges[k].token = token

\* the challenge with this token is in the store and its expires_at has
\* passed
Expired(token) ==
    \E k \in 1..Len(challenges) :
        /\ challenges[k].token = token
        /\ challenges[k].expires_at <= tnow

\* C29: while the trust service runs, every challenge whose expires_at has
\* passed is eventually removed from the store, and no challenge that has
\* not expired is removed.
C29_ExpiredChallengesSwept ==
    /\ \A token \in 1..MaxChallenges : Expired(token) ~> ~Stored(token)
    /\ [][ \A k \in 1..Len(challenges) :
             challenges[k].expires_at > tnow' =>
                \E j \in 1..Len(challenges') :
                    challenges'[j].token = challenges[k].token ]_vars

\* the JWS of a stored attestation verifies under the service's key at t and
\* carries the row's domain, layer and manifest hash
VerifiesWithRowClaims(row, t) ==
    LET r == verify(row.jws, public_key(ServiceKey), t) IN
    /\ r.error = None
    /\ r.claims.sub = row.domain
    /\ r.claims.oap_layer = row.layer
    /\ r.claims.oap_manifest_hash = row.manifest

\* every stored attestation whose exp claim is still ahead verifies
IssuedJwsVerifies ==
    \A k \in 1..Len(attestations), usec \in QueryMicroseconds :
        Later(Instant(attestations[k].jws.payload.exp, 0), Instant(tnow, usec))
            => VerifiesWithRowClaims(attestations[k], Instant(tnow, usec))

\* the exp claim of the last call was in the future when it was made
FutureExp == Later(Instant(kcall.claims.exp, 0), kcall.at)

RECURSIVE Concat(_)
Concat(chunks) ==
    IF chunks = <<>> THEN <<>> ELSE Head(chunks) \o Concat(Tail(chunks))

\* C35: for every text and every chunk_size >= 1, _split_chunks terminates
\* and returns non-empty chunks of at most chunk_size characters each whose
\* concatenation, in order, is the input text.
C35_SplitChunksPartitionsText ==
    /\ (split.pc = "loop") ~> (split.pc = "done")
    /\ [](\A k \in 1..Len(split.chunks) :
             /\ split.chunks[k] # <<>>
             /\ Len(split.chunks[k]) <= split.chunk_size)
    /\ [](split.pc = "done" => Concat(split.chunks) = split.text)

\* a call that returned several chunks, the first one cut after a newline
\* before it was full
C35_Witness ==
    /\ split.pc = "done"
    /\ Len(split.chunks) >= 2
    /\ Len(split.chunks[1]) < split.chunk_size
    /\ split.chunks[1][Len(split.chunks[1])] = Newline

\* C39: within one chat request degrade_confidence is called at most once,
\* and only on the id of the record that produced the request's cache hit; a
\* request that was not a cache hit never calls it.
C39_DegradeOnceOnHitRecord ==
    /\ Len(chat.degraded) <= 1
    /\ \A k \in 1..Len(chat.degraded) :
          /\ chat.served_from_cache
          /\ chat.degraded[k] = chat.exp_id
    /\ ~chat.served_from_cache => chat.degraded = <<>>

\* a finished request that degraded its hit record and then ran a second
\* attempt in which a tool erred again
C39_Witness ==
    /\ chat.pc = "done"
    /\ Len(chat.degraded) = 1
    /\ chat.attempts = 2
    /\ chat.tools_had_errors

\* the record is stored under the id before and after the step
Kept(id) == experiences[id] # NoRecord /\ experiences'[id] # NoRecord

\* the step is a call of save for the id
SavedInStep(id) ==
    /\ storeCall'.n = storeCall.n + 1
    /\ storeCall'.op = "save"
    /\ storeCall'.id = id

\* C40 as stated: for every experience id the stored use_count never
\* decreases while the record exists.
C40_UseCountNeverDecreases ==
    [][ \A id \in ExperienceIds :
          Kept(id) => experiences'[id].use_count >= experiences[id].use_count
      ]_vars

\* C40 amended: use_count decreases only in a step that saves the id again,
\* which sets it to 1; touch adds one and degrade_confidence leaves it.
C40_UseCountResetOnlyBySave ==
    [][ \A id \in ExperienceIds :
          Kept(id) =>
            \/ experiences'[id].use_count >= experiences[id].use_count
            \/ /\ SavedInStep(id)
               /\ experiences'[id].use_count = 1
               /\ experiences'[id].last_used = now
      ]_vars

\* the grep record of scenario S4 was saved again and counts from 1
C40_Witness ==
    LET id == make_experience_id(1, FpGrep, "grep") IN
    /\ experiences[id] # NoRecord
    /\ storeCall.op = "save" /\ storeCall.id = id
    /\ experiences[id].use_count = 1
    /\ StoreS3[id].use_count > 1
    /\ StoreS4[id].use_count > 1

\* the call of c ends in this step with the verifier reporting failure
VerifierFailed(c) ==
    /\ vcall'[c] # vcall[c]
    /\ vcall'[c].pc = "done"
    /\ vcall'[c].error = "Challenge not verified"

\* C34: if the challenge verifier reports failure (a DNS resolution error
\* included), verify_domain_attestation returns challenge_verified = false,
\* stores no attestation and leaves the challenge pending, so that it stays
\* eligible for a later verify call made before it expires.
C34_FailedVerifyLeavesChallengePending ==
    [][ \A c \in Callers :
          VerifierFailed(c) =>
            /\ ~vcall'[c].challenge_verified
            /\ vcall'[c].attestation = 0
            /\ attestations' = attestations
            /\ challenges' = challenges
            /\ \E k \in 1..Len(challenges') :
                  /\ challenges'[k].token = vcall'[c].token
                  /\ challenges'[k].status = "pending"
                  /\ challenges'[k].expires_at > tnow' =>
                        k \in Eligible(challenges', vcall'[c].domain, tnow')
      ]_vars

\* a call that ended with the challenge not verified, and the challenge is
\* the one a verify call made now would select
C34_Witness ==
    \E c \in Callers :
        /\ vcall[c].pc = "done"
        /\ vcall[c].error = "Challenge not verified"
        /\ ~vcall[c].challenge_verified
        /\ \E k \in get_pending_challenge(challenges, vcall[c].domain, tnow) :
              challenges[k].token = vcall[c].token

\* C36: each challenge leads to at most one Layer-1 attestation, also when
\* two verify calls of the same domain are both suspended in the verifier
\* before either marks the challenge verified.
C36_OneAttestationPerChallenge ==
    \A i, j \in 1..Len(attestations) :
        ( /\ attestations[i].layer = 1
          /\ attestations[j].layer = 1
          /\ attestations[i].challenge = attestations[j].challenge ) => i = j

\* C38: attest_capability issues a Layer-2 attestation exactly when the
\* invoke endpoint answered the liveness probe with a status below 500 and
\* a declared health URL did not fail its check; the example invocation
\* never changes whether the attestation is issued.
C38_IssuedIffLiveAndHealthy ==
    cap.fetched =>
        ( cap.attestation # 0 <=>
            cap.result.endpoint_live /\ cap.result.health_ok # "false" )

\* a request was served in this step
Served == ecall'.n = ecall.n + 1

\* C32: on path 2 or path 3, when discovery returns no match, process
\* returns the candidates with no invocation performed and with no experience
\* record created or modified.
C32_NoMatchInvokesAndSavesNothing ==
    [][ ( /\ Served
          /\ ecall'.path \in {"partial_match", "full_discovery"}
          /\ ~ecall'.matched ) =>
            /\ ecall'.discover
            /\ ecall'.call = NoCall
            /\ ecall'.saved = NoId /\ ecall'.touched = NoId
            /\ experiences' = experiences
            /\ invocations' = invocations
      ]_vars

\* a partial-match request for which discovery found no match, served from
\* a store that holds the template
C32_Witness ==
    /\ ecall.n > 0
    /\ ecall.path = "partial_match"
    /\ ~ecall.matched
    /\ Present(experiences) # {}

\* C33: a cache hit of process (path 1) runs no discovery (no embedding, no
\* vector search, no LLM arbitration) and no parameter extraction, and
\* creates no record: the only change to the store is the touch of the hit
\* record.
C33_CacheHitOnlyTouches ==
    [][ (Served /\ ecall'.path = "cache_hit") =>
            /\ ~ecall'.discover /\ ~ecall'.extract
            /\ ecall'.saved = NoId
            /\ ecall'.touched \in Present(experiences)
            /\ experiences' = touch(experiences, ecall'.touched, now)
            /\ Present(experiences') = Present(experiences)
            /\ invocations' = invocations
      ]_vars

\* a cache hit that invoked the cached pattern and touched the record
C33_Witness ==
    /\ ecall.path = "cache_hit"
    /\ ecall.call # NoCall
    /\ experiences[ecall.touched].use_count = 2

\* the request invoked a stdio manifest with at least one parameter value
StdioWithParams ==
    /\ ecall.call # NoCall
    /\ Upper(ecall.call.method) = "STDIO"
    /\ ecall.mapping # <<>>

\* C31: for a stdio manifest, path 2 and path 3 pass the parameter values
\* extracted by the LLM to the command as positional argv in insertion
\* order, whereas path 1 passes the cached values as a single
\* whitespace-joined stdin string.
C31_ArgvOnPaths2And3StdinOnPath1 ==
    StdioWithParams =>
        IF ecall.path = "cache_hit"
        THEN /\ ecall.call.argv = << <<ecall.call.url>> >>
             /\ ecall.call.stdin_text = Some(Join(ecall.mapping))
        ELSE /\ ecall.call.argv = << <<ecall.call.url>> >> \o ecall.mapping
             /\ ecall.call.stdin_text = Nothing

\* C31 amended: on each of the three paths the values (extracted on paths 2
\* and 3, cached on path 1) reach a stdio command as one stdin string, joined
\* by single spaces in insertion order; argv is the command alone, and an
\* empty joined string opens no stdin.
C31_StdinOnEveryPath ==
    StdioWithParams =>
        /\ ecall.call.argv = << <<ecall.call.url>> >>
        /\ ecall.call.params = Nothing
        /\ ecall.call.stdin_text = Some(Join(ecall.mapping))
        /\ ecall.call.stdin = "PIPE" <=> Join(ecall.mapping) # <<>>

\* a path-3 request that passed two values to a stdio command
C31_Witness ==
    /\ StdioWithParams
    /\ ecall.path = "full_discovery"
    /\ ecall.mapping = << <<"a">>, <<>> >>
    /\ ecall.call.stdin_text.v = <<"a", Space>>

\* C37: a path-1 cache hit issues the same invocation as the path-2/3
\* invocation that created the record: the same method and URL, the same
\* headers and auth settings of the manifest, and the same parameter values
\* or stdin text.
C37_CacheHitReplaysCreatingInvocation ==
    (ecall.path = "cache_hit") =>
        ecall.call = InvocationRecord(invocations, ecall.touched).created

====
